---- MODULE Spec2Model ----
(***************************************************************************)
(* Log collection of kube-ai (package logs, LogCollector): the batch entry *)
(* point GetResourceLogs and the streaming entry point StreamLogs with its *)
(* per-pod readers (streamPodLogs) and the fan-in of                       *)
(* streamPodsWithSelector.  Unbuffered Go channels are modelled as         *)
(* rendezvous: a send and the matching receive are one joint step.         *)
(*                                                                         *)
(* The pure functions of the package have specifications of their own:     *)
(* ParseSpec applies parseLogLine to a line, SummarySpec runs ParseLogs    *)
(* over an input it draws record by record, DetectSpec applies             *)
(* detectIssues to a larger input described by its error counts.           *)
(***************************************************************************)
EXTENDS Integers, Sequences, FiniteSets, TLC

\* ---------------------------------------------------------------- bounds
MaxPods == 2
MaxLines == 2

\* safety cap of a non-follow read (len(logEntries) > 10000)
MaxLogEntries == 10000

Pods == 1..MaxPods


VARIABLES
    mode,       \* entry point called: "batch" (GetResourceLogs), "stream" (StreamLogs),
                \* "parse" (parseLogLine), "summary" (ParseLogs), "detect" (detectIssues),
                \* "service" (ai.Service)
    kind,       \* options.ResourceType
    cancelled,  \* ctx.Done() is closed
    panicked,   \* the Go runtime panicked (send on / close of a closed channel)
    spc,        \* position of the entry-point call
    sret,       \* error returned by the entry-point call
    npods,      \* len(pods.Items) after the listing
    launched,   \* pods whose reader goroutine was started (loop index)
    wg,         \* sync.WaitGroup counter
    mergeIdx,   \* merge goroutine: 0 not spawned, else next pod index to spawn forwarders for
    rpc,        \* per-pod reader (streamPodLogs) position
    rret,       \* per-pod reader return value
    rheld,      \* entry a reader is sending
    nread,      \* lines read so far from each pod's stream
    closed,     \* which channels are closed
    flpc,       \* per-pod record forwarder position
    flheld,     \* entry a record forwarder holds
    fepc,       \* per-pod error forwarder position
    cpc,        \* caller's receive loop: "recv" or "stopped"
    delivered,  \* per pod, the entries the caller received on logChan
    gotErr,     \* per pod, number of errors the caller received on errChan
    eofSeen,    \* history: the single-pod reader has met io.EOF and gone on
    openCalls,  \* pods for which req.Stream(ctx) was called
    lookups,    \* workload Get calls made
    resolveFail,\* how workload resolution failed ("none" if it did not)
    bidx,       \* getLogsFromPods loop index
    src,        \* per pod, the log stream the cluster served to GetPodLogs
    podResult,  \* per pod, what GetPodLogs returned
    allLogs,    \* getLogsFromPods accumulator / returned entries
    line,       \* parseLogLine: the line handed in (a sequence of characters)
    entry,      \* parseLogLine: the LogEntry returned
    ppc,        \* ParseLogs / detectIssues: position of the call
    family,     \* ParseLogs: what the records of this input vary in
    logs,       \* ParseLogs / detectIssues: the input, as the detectors read it
    summary,    \* ParseLogs: the LogSummary being built / returned
    errorMap,   \* ParseLogs: occurrences per error pattern key
    warningMap, \* ParseLogs: occurrences per warning pattern key
    resourceErrorMap, \* ParseLogs: ERROR/FATAL records per source
    errorExamples,    \* ParseLogs: example records per error pattern key
    warningExamples,  \* ParseLogs: example records per warning pattern key
    detectCalls,\* history: calls of detectIssues
    provider,   \* Service.provider: the active provider (its type and config.ModelName)
    config,     \* Service.config: AIProvider and DefaultModel of the shared Config
    configFile, \* ~/.kube-ai/config.json as SaveConfig last wrote it
    serviceRet, \* what the last Service call returned
    serviceWas  \* history: provider and config when the last Service call began

vars == <<mode, kind, cancelled, panicked, spc, sret, npods, launched, wg, mergeIdx,
          rpc, rret, rheld, nread, closed, flpc, flheld, fepc, cpc, delivered,
          gotErr, eofSeen, openCalls, lookups, resolveFail, bidx, src, podResult,
          allLogs, line, entry, ppc, family, logs, summary, errorMap, warningMap,
          resourceErrorMap, errorExamples, warningExamples, detectCalls,
          provider, config, configFile, serviceRet, serviceWas>>

streamVars == <<cancelled, panicked, launched, wg, mergeIdx, rpc, rret, rheld, nread,
                closed, flpc, flheld, fepc, cpc, delivered, gotErr, eofSeen>>
batchVars == <<bidx, src, podResult, allLogs>>
parseVars == <<line, entry>>
summaryVars == <<ppc, family, logs, summary, errorMap, warningMap, resourceErrorMap,
                 errorExamples, warningExamples, detectCalls>>
serviceVars == <<provider, config, configFile, serviceRet, serviceWas>>
pureVars == <<parseVars, summaryVars, serviceVars>>

\* channel identities: index 0 is the caller-facing pair, index p the pair of pod p
LogChan == <<"log", 0>>
ErrChan == <<"err", 0>>

\* a log entry in flight: the pod it was read from, its line index, and whether it
\* was read after another pod's reader had failed
NoEntry == [pod |-> 0, idx |-> 0, late |-> FALSE]

\* a pod's log stream as a batch read sees it: whether it opens, its number of
\* newline-terminated lines, whether an unterminated last line follows them, and how
\* the read ends after them (end of stream, a read error, or ctx cancelled)
Sources ==
    [open : {TRUE}, lines : {0, 1, MaxLogEntries, MaxLogEntries + 1}, tail : BOOLEAN,
     stop : {"eof", "err", "cancel"}]
    \cup [open : {FALSE}, lines : {0}, tail : {FALSE}, stop : {"eof"}]

\* nothing of the collector has run
CollectorIdle ==
    /\ cancelled = FALSE
    /\ panicked = FALSE
    /\ spc = "entry"
    /\ sret = "pending"
    /\ npods = 0
    /\ launched = 0
    /\ wg = 0
    /\ mergeIdx = 0
    /\ rpc = [p \in Pods |-> "idle"]
    /\ rret = [p \in Pods |-> "pending"]
    /\ rheld = [p \in Pods |-> NoEntry]
    /\ nread = [p \in Pods |-> 0]
    /\ closed = [c \in {"log", "err"} \X (0..MaxPods) |-> FALSE]
    /\ flpc = [p \in Pods |-> "idle"]
    /\ flheld = [p \in Pods |-> NoEntry]
    /\ fepc = [p \in Pods |-> "idle"]
    /\ cpc = "recv"
    /\ delivered = [p \in Pods |-> <<>>]
    /\ gotErr = [p \in Pods |-> 0]
    /\ eofSeen = FALSE
    /\ openCalls = {}
    /\ lookups = 0
    /\ resolveFail = "none"
    /\ bidx = 0
    /\ src = [p \in Pods |->
                [open |-> FALSE, lines |-> 0, tail |-> FALSE, stop |-> "unset"]]
    /\ podResult = [p \in Pods |-> [n |-> 0, err |-> "unset"]]
    /\ allLogs = <<>>

\* time.Time{}
ZeroTime == [year |-> 1, month |-> 1, day |-> 1, hour |-> 0, min |-> 0, sec |-> 0]

\* LogEntry{}: nothing parsed yet.  A map is modelled by whether it is nil and by
\* its key/value pairs.
NotParsed == [LogLevel |-> <<>>, Content |-> <<>>, Timestamp |-> ZeroTime,
              Data |-> [isNil |-> TRUE, kv |-> <<>>]]

ParserIdle ==
    /\ line = <<>>
    /\ entry = NotParsed

\* LogSummary{}
ZeroSummary ==
    [TotalEntries |-> 0, ErrorCount |-> 0, WarningCount |-> 0,
     CommonErrors |-> <<>>, CommonWarnings |-> <<>>, ErrorHotspots |-> <<>>,
     PotentialIssues |-> <<>>,
     TimeRange |-> [Start |-> 0, End |-> 0, Duration |-> 0, isZero |-> TRUE]]

\* The input of ParseLogs, as far as it has been drawn, reduced to what the issue
\* detectors read from it: its length, the timestamp of logs[0], how many ERROR/FATAL
\* records carry each timestamp, how many records announce a container start, and
\* which of the resource / network / auth keywords occur.  Timestamps are in
\* ticks of 30 seconds (see Minute).  times is the set of the records' timestamps,
\* and entries lists level and pattern key of the records of an input whose records
\* are told apart.
NoLogs == [len |-> 0, first |-> 0, errorTimes |-> <<>>, restarts |-> 0, topics |-> {},
           times |-> {}, entries |-> <<>>]

SummaryIdle ==
    /\ ppc = "idle"
    /\ family = "none"
    /\ logs = NoLogs
    /\ summary = ZeroSummary
    /\ errorMap = <<>>
    /\ warningMap = <<>>
    /\ resourceErrorMap = <<>>
    /\ errorExamples = <<>>
    /\ warningExamples = <<>>
    /\ detectCalls = 0

\* no Service has been constructed
NoProvider == [name |-> "none", ModelName |-> <<>>]
NoConfig == [AIProvider |-> "none", DefaultModel |-> <<>>]

ServiceIdle ==
    /\ provider = NoProvider
    /\ config = NoConfig
    /\ configFile = NoConfig
    /\ serviceRet = "pending"
    /\ serviceWas = [provider |-> NoProvider, config |-> NoConfig]

Init ==
    /\ mode \in {"batch", "stream"}
    \* "job" stands for every resource type the switches do not name
    /\ kind \in {"pod", "deployment", "deploy", "statefulset", "sts", "job"}
    /\ CollectorIdle
    /\ ServiceIdle
    /\ ParserIdle
    /\ SummaryIdle


\* ------------------------------------------------------ streaming: entry
\* switch of StreamLogs: which streaming routine a resource type reaches
StreamDispatch(k) ==
    CASE k = "pod" -> "pod"
      [] k = "deployment" -> "workload"
      [] k = "statefulset" -> "workload"
      [] OTHER -> "unsupported"

\* channel pair a reader writes to: the caller's for a single pod, its own in the fan-in
RLogCh(p) == IF kind = "pod" THEN LogChan ELSE <<"log", p>>
RErrCh(p) == IF kind = "pod" THEN ErrChan ELSE <<"err", p>>

\* StreamLogs: dispatch on options.ResourceType
StreamLogs ==
    /\ mode = "stream" /\ spc = "entry" /\ ~panicked
    /\ CASE StreamDispatch(kind) = "pod" ->
              /\ spc' = "inline"
              /\ npods' = 1
              /\ rpc' = [rpc EXCEPT ![1] = "open"]
              /\ UNCHANGED sret
         [] StreamDispatch(kind) = "workload" ->
              /\ spc' = "getWorkload"
              /\ UNCHANGED <<npods, rpc, sret>>
         [] OTHER ->
              /\ spc' = "returned"
              /\ sret' = "unsupported"
              /\ UNCHANGED <<npods, rpc>>
    /\ UNCHANGED <<mode, kind, cancelled, panicked, launched, wg, mergeIdx, rret, rheld,
                   nread, closed, flpc, flheld, fepc, cpc, delivered, gotErr,
                   openCalls, lookups, resolveFail, batchVars, eofSeen, pureVars>>

\* streamDeploymentLogs / streamStatefulSetLogs: Get the workload; on error close
\* both caller channels and return
StreamGetWorkload ==
    /\ mode = "stream" /\ spc = "getWorkload" /\ ~panicked
    /\ lookups' = lookups + 1
    /\ \E ok \in BOOLEAN :
         IF ok
         THEN /\ spc' = "listPods"
              /\ UNCHANGED <<sret, closed, resolveFail>>
         ELSE /\ spc' = "returned"
              /\ sret' = "get"
              /\ resolveFail' = "get"
              /\ closed' = [closed EXCEPT ![LogChan] = TRUE, ![ErrChan] = TRUE]
    /\ UNCHANGED <<mode, kind, cancelled, panicked, npods, launched, wg, mergeIdx, rpc,
                   rret, rheld, nread, flpc, flheld, fepc, cpc, delivered, gotErr,
                   openCalls, batchVars, eofSeen, pureVars>>

\* mutant: the empty listing is not checked
NoPodsCheckMissing(n) == "none"

\* error streamPodsWithSelector returns for a successful listing of n pods
NoPodsCheck(n) == IF n = 0 THEN "nopods" ELSE "none"

\* streamPodsWithSelector: list the pods; listing error or empty list returns
\* (the deferred closes run)
StreamListPods ==
    /\ mode = "stream" /\ spc = "listPods" /\ ~panicked
    /\ \/ /\ sret' = "list"
          /\ resolveFail' = "list"
          /\ spc' = "closeErr"
          /\ UNCHANGED npods
       \/ \E n \in 0..MaxPods :
            /\ npods' = n
            /\ IF NoPodsCheck(n) # "none"
               THEN /\ sret' = NoPodsCheck(n)
                    /\ resolveFail' = "nopods"
                    /\ spc' = "closeErr"
               ELSE /\ spc' = "launch"
                    /\ resolveFail' = IF n = 0 THEN "nopods" ELSE "none"
                    /\ UNCHANGED sret
    /\ UNCHANGED <<mode, kind, streamVars, openCalls, lookups, batchVars, pureVars>>

\* the loop over pods.Items: wg.Add(1); go streamPodLogs(...) for every pod.  A
\* started reader's first step (opening its stream) does not depend on the loop's
\* progress, so the loop is one step.
LaunchReader ==
    /\ mode = "stream" /\ spc = "launch" /\ ~panicked
    /\ launched = 0
    /\ launched' = npods
    /\ wg' = wg + npods
    /\ rpc' = [p \in Pods |-> IF p <= npods THEN "open" ELSE rpc[p]]
    /\ UNCHANGED <<mode, kind, cancelled, panicked, spc, sret, npods, mergeIdx, rret,
                   rheld, nread, closed, flpc, flheld, fepc, cpc, delivered, gotErr,
                   openCalls, lookups, resolveFail, batchVars, eofSeen, pureVars>>

\* for x := range ch in a forwarder: it receives next, or the loop (and the
\* goroutine) ends because ch is closed.  A forwarder's exit changes nothing another
\* goroutine can observe, so it is taken together with the step that causes it.
RangeNext(ch) == IF closed[ch] THEN "done" ELSE "recv"

\* mutant: the forwarders capture the loop variable and all range over the last pod
FwdSourceCaptured(f) == npods

\* pod whose channels forwarder f ranges over: go func(index int) {...}(i) hands
\* each forwarder its own index
FwdSource(f) == f

\* forwarder positions after pod p's record / error channel was closed
EndLogRange(p) ==
    [f \in Pods |-> IF flpc[f] = "recv" /\ FwdSource(f) = p THEN "done" ELSE flpc[f]]

EndErrRange(p, fe) == [fe EXCEPT ![p] = IF @ = "recv" THEN "done" ELSE @]

\* go func() { for i := range pods.Items { go ...; go ... } }(): the merge goroutine
\* and the two forwarders per pod it spawns take no step others can observe before
\* their first receive, so they are spawned here, in one step
StartMerge ==
    /\ mode = "stream" /\ spc = "launch" /\ ~panicked
    /\ launched = npods
    /\ mergeIdx' = npods + 1
    /\ flpc' = [f \in Pods |-> IF f <= npods THEN RangeNext(<<"log", FwdSource(f)>>)
                                 ELSE flpc[f]]
    /\ fepc' = [f \in Pods |-> IF f <= npods THEN RangeNext(<<"err", f>>) ELSE fepc[f]]
    /\ spc' = "wait"
    /\ UNCHANGED <<mode, kind, cancelled, panicked, sret, npods, launched, wg, rpc, rret,
                   rheld, nread, closed, flheld, cpc, delivered, gotErr,
                   openCalls, lookups, resolveFail, batchVars, eofSeen, pureVars>>

\* mutant: Wait returns while one reader is still counted
WgWaitEarly == wg <= 1

\* wg.Wait() returns
WgWait == wg = 0

WaitReaders ==
    /\ mode = "stream" /\ spc = "wait" /\ ~panicked
    /\ WgWait
    /\ spc' = "closeErr"
    /\ sret' = "nil"
    /\ UNCHANGED <<mode, kind, streamVars, npods, openCalls, lookups, resolveFail,
                   batchVars, pureVars>>

\* deferred close(errChan) of streamPodsWithSelector (runs first), then close(logChan)
FanInCloseErr ==
    /\ mode = "stream" /\ spc = "closeErr" /\ ~panicked
    /\ IF closed[ErrChan]
       THEN panicked' = TRUE /\ UNCHANGED <<closed, spc>>
       ELSE closed' = [closed EXCEPT ![ErrChan] = TRUE] /\ spc' = "closeLog"
                /\ UNCHANGED panicked
    /\ UNCHANGED <<mode, kind, cancelled, sret, npods, launched, wg, mergeIdx, rpc, rret,
                   rheld, nread, flpc, flheld, fepc, cpc, delivered, gotErr,
                   openCalls, lookups, resolveFail, batchVars, eofSeen, pureVars>>

FanInCloseLog ==
    /\ mode = "stream" /\ spc = "closeLog" /\ ~panicked
    /\ IF closed[LogChan]
       THEN panicked' = TRUE /\ UNCHANGED <<closed, spc>>
       ELSE closed' = [closed EXCEPT ![LogChan] = TRUE] /\ spc' = "returned"
                /\ UNCHANGED panicked
    /\ UNCHANGED <<mode, kind, cancelled, sret, npods, launched, wg, mergeIdx, rpc, rret,
                   rheld, nread, flpc, flheld, fepc, cpc, delivered, gotErr,
                   openCalls, lookups, resolveFail, batchVars, eofSeen, pureVars>>


\* ------------------------------------------- streaming: streamPodLogs(p)
TotalRead == nread[1] + (IF MaxPods >= 2 THEN nread[2] ELSE 0)
               + (IF MaxPods >= 3 THEN nread[3] ELSE 0)

\* streamPodLogs returns v and its deferred calls run.  For a single pod they close
\* the caller's channels, one step each (ReaderCloseErr, ReaderCloseLog).  In the
\* fan-in they close the pod's own channels, which only its two forwarders see, and
\* the wrapper calls wg.Done(); none of this can block and nobody observes the
\* forwarders' exit, so there the return is one step up to wg.Done().
ReaderReturn(p, v, fe) ==
    /\ rret' = [rret EXCEPT ![p] = v]
    /\ IF kind = "pod"
       THEN /\ rpc' = [rpc EXCEPT ![p] = "closeErr"]
            /\ fepc' = fe
            /\ UNCHANGED <<closed, wg, flpc>>
       ELSE /\ rpc' = [rpc EXCEPT ![p] = "done"]
            /\ closed' = [closed EXCEPT ![<<"err", p>>] = TRUE, ![<<"log", p>>] = TRUE]
            /\ flpc' = EndLogRange(p)
            /\ fepc' = EndErrRange(p, fe)
            /\ wg' = wg - 1

\* the reader stays in its loop
ReaderGoes(p, pc) ==
    /\ rpc' = [rpc EXCEPT ![p] = pc]
    /\ UNCHANGED <<rret, closed, wg, flpc, fepc>>

\* req.Stream(ctx): the stream opens, or the call returns the open error
ReaderOpen(p) ==
    /\ mode = "stream" /\ rpc[p] = "open" /\ ~panicked
    /\ openCalls' = openCalls \cup {p}
    /\ \/ ReaderGoes(p, "loop")
       \/ ReaderReturn(p, "open", fepc)
    /\ UNCHANGED <<mode, kind, cancelled, panicked, spc, sret, npods, launched,
                   mergeIdx, rheld, nread, flheld, cpc, delivered,
                   gotErr, lookups, resolveFail, batchVars, eofSeen, pureVars>>

\* top of the loop: select { case <-ctx.Done(): return nil; default: read }
ReaderSelect(p) ==
    /\ mode = "stream" /\ rpc[p] = "loop" /\ ~panicked
    /\ IF cancelled
       THEN ReaderReturn(p, "nil", fepc)
       ELSE ReaderGoes(p, "read")
    /\ UNCHANGED <<mode, kind, cancelled, panicked, spc, sret, npods, launched,
                   mergeIdx, rheld, nread, flheld, cpc, delivered,
                   gotErr, openCalls, lookups, resolveFail, batchVars,
                   eofSeen, pureVars>>

\* index of the line reader.ReadString returns next from pod p's stream
NextLine(p) == nread[p] + 1

\* another pod's reader has returned an error
SiblingFailed(p) == \E q \in Pods : q # p /\ rret[q] \in {"open", "read"}

\* reader.ReadString('\n') returns a line; parseLogLine makes it an entry
ReaderReadLine(p) ==
    /\ mode = "stream" /\ rpc[p] = "read" /\ ~panicked
    /\ TotalRead < MaxLines
    /\ rheld' = [rheld EXCEPT ![p] = [pod |-> p, idx |-> NextLine(p),
                                     late |-> SiblingFailed(p)]]
    /\ nread' = [nread EXCEPT ![p] = nread[p] + 1]
    /\ rpc' = [rpc EXCEPT ![p] = "sendLog"]
    /\ UNCHANGED <<mode, kind, cancelled, panicked, spc, sret, npods, launched, wg,
                   mergeIdx, rret, closed, flpc, flheld, fepc, cpc, delivered,
                   gotErr, openCalls, lookups, resolveFail, batchVars,
                   eofSeen, pureVars>>

\* mutant: io.EOF ends the reader as it ends a batch read
ReaderReadEOFStops(p) ==
    /\ mode = "stream" /\ rpc[p] = "read" /\ ~panicked
    /\ ReaderReturn(p, "nil", fepc)
    /\ eofSeen' = (eofSeen \/ kind = "pod")
    /\ UNCHANGED <<mode, kind, cancelled, panicked, spc, sret, npods, launched,
                   mergeIdx, rheld, nread, flheld, cpc, delivered,
                   gotErr, openCalls, lookups, resolveFail, batchVars, pureVars>>

\* reader.ReadString returns io.EOF: time.Sleep(1 * time.Second); continue
ReaderReadEOF(p) ==
    /\ mode = "stream" /\ rpc[p] = "read" /\ ~panicked
    /\ rpc' = [rpc EXCEPT ![p] = "loop"]
    /\ eofSeen' = (eofSeen \/ kind = "pod")
    /\ UNCHANGED <<mode, kind, cancelled, panicked, spc, sret, npods, launched, wg,
                   mergeIdx, rret, rheld, nread, closed, flpc, flheld, fepc, cpc,
                   delivered, gotErr, openCalls, lookups, resolveFail, batchVars,
                   pureVars>>

\* reader.ReadString returns another error: return nil if ctx.Err() != nil,
\* else go on to send it on errChan
ReaderReadErr(p) ==
    /\ mode = "stream" /\ rpc[p] = "read" /\ ~panicked
    /\ IF cancelled
       THEN ReaderReturn(p, "nil", fepc)
       ELSE ReaderGoes(p, "sendErr")
    /\ UNCHANGED <<mode, kind, cancelled, panicked, spc, sret, npods, launched,
                   mergeIdx, rheld, nread, flheld, cpc, delivered,
                   gotErr, openCalls, lookups, resolveFail, batchVars,
                   eofSeen, pureVars>>

\* the caller's receive of entry e from logChan
Deliver(d, e) == [d EXCEPT ![e.pod] = Append(@, e.idx)]

\* select { case logChan <- entry: ; case <-ctx.Done(): return nil }
\* the send completes with the caller (single pod) or with a forwarder receiving
\* from the pod's channel
ReaderSendLog(p) ==
    /\ mode = "stream" /\ rpc[p] = "sendLog" /\ ~panicked
    /\ ~closed[RLogCh(p)]
    /\ IF kind = "pod"
       THEN /\ cpc = "recv"
            /\ delivered' = Deliver(delivered, rheld[p])
            /\ UNCHANGED <<flpc, flheld>>
       ELSE /\ \E f \in Pods :
                 /\ FwdSource(f) = p
                 /\ flpc[f] = "recv"
                 /\ flpc' = [flpc EXCEPT ![f] = "send"]
                 /\ flheld' = [flheld EXCEPT ![f] = rheld[p]]
            /\ UNCHANGED delivered
    /\ rpc' = [rpc EXCEPT ![p] = "loop"]
    /\ rheld' = [rheld EXCEPT ![p] = NoEntry]
    /\ UNCHANGED <<mode, kind, cancelled, panicked, spc, sret, npods, launched, wg,
                   mergeIdx, rret, nread, closed, fepc, cpc, gotErr, openCalls,
                   lookups, resolveFail, batchVars, eofSeen, pureVars>>

ReaderSendLogCancel(p) ==
    /\ mode = "stream" /\ rpc[p] = "sendLog" /\ ~panicked
    /\ cancelled
    /\ ReaderReturn(p, "nil", fepc)
    /\ rheld' = [rheld EXCEPT ![p] = NoEntry]
    /\ UNCHANGED <<mode, kind, cancelled, panicked, spc, sret, npods, launched,
                   mergeIdx, nread, flheld, cpc, delivered,
                   gotErr, openCalls, lookups, resolveFail, batchVars,
                   eofSeen, pureVars>>

\* errChan <- fmt.Errorf(...); return err     (a plain send, no select)
ReaderSendErr(p) ==
    /\ mode = "stream" /\ rpc[p] = "sendErr" /\ ~panicked
    /\ ~closed[RErrCh(p)]
    /\ IF kind = "pod"
       THEN /\ cpc = "recv"
            /\ gotErr' = [gotErr EXCEPT ![p] = @ + 1]
            /\ ReaderReturn(p, "read", fepc)
       ELSE /\ fepc[p] = "recv"
            /\ ReaderReturn(p, "read", [fepc EXCEPT ![p] = "send"])
            /\ UNCHANGED gotErr
    /\ UNCHANGED <<mode, kind, cancelled, panicked, spc, sret, npods, launched,
                   mergeIdx, rheld, nread, flheld, cpc, delivered,
                   openCalls, lookups, resolveFail, batchVars, eofSeen, pureVars>>

\* deferred close(errChan) of a single pod's streamPodLogs
ReaderCloseErr(p) ==
    /\ mode = "stream" /\ rpc[p] = "closeErr" /\ ~panicked
    /\ closed' = [closed EXCEPT ![ErrChan] = TRUE]
    /\ rpc' = [rpc EXCEPT ![p] = "closeLog"]
    /\ UNCHANGED <<mode, kind, cancelled, panicked, spc, sret, npods, launched, wg,
                   mergeIdx, rret, rheld, nread, flpc, flheld, fepc, cpc, delivered,
                   gotErr, openCalls, lookups, resolveFail, batchVars,
                   eofSeen, pureVars>>

\* deferred close(logChan) of a single pod's streamPodLogs, then StreamLogs returns
\* what it returned
ReaderCloseLog(p) ==
    /\ mode = "stream" /\ rpc[p] = "closeLog" /\ ~panicked
    /\ closed' = [closed EXCEPT ![LogChan] = TRUE]
    /\ rpc' = [rpc EXCEPT ![p] = "done"]
    /\ spc' = "returned"
    /\ sret' = rret[p]
    /\ UNCHANGED <<mode, kind, cancelled, panicked, npods, launched, wg, mergeIdx, rret,
                   rheld, nread, flpc, flheld, fepc, cpc, delivered, gotErr, openCalls,
                   lookups, resolveFail, batchVars, eofSeen, pureVars>>

\* --------------------------------------------- streaming: the forwarders
\* select { case logChan <- entry: ...}: the caller receives the entry; a send on
\* the closed channel panics
FwdLogSend(p) ==
    /\ mode = "stream" /\ flpc[p] = "send" /\ ~panicked
    /\ IF closed[LogChan]
       THEN panicked' = TRUE /\ UNCHANGED <<flpc, flheld, delivered>>
       ELSE /\ cpc = "recv"
            /\ delivered' = Deliver(delivered, flheld[p])
            /\ flpc' = [flpc EXCEPT ![p] = RangeNext(<<"log", FwdSource(p)>>)]
            /\ flheld' = [flheld EXCEPT ![p] = NoEntry]
            /\ UNCHANGED panicked
    /\ UNCHANGED <<mode, kind, cancelled, spc, sret, npods, launched, wg, mergeIdx, rpc,
                   rret, rheld, nread, closed, fepc, cpc, gotErr, openCalls, lookups,
                   resolveFail, batchVars, eofSeen, pureVars>>

\* select { ... case <-ctx.Done(): return }
FwdLogCancel(p) ==
    /\ mode = "stream" /\ flpc[p] = "send" /\ ~panicked
    /\ cancelled
    /\ flpc' = [flpc EXCEPT ![p] = "done"]
    /\ flheld' = [flheld EXCEPT ![p] = NoEntry]
    /\ UNCHANGED <<mode, kind, cancelled, panicked, spc, sret, npods, launched, wg,
                   mergeIdx, rpc, rret, rheld, nread, closed, fepc, cpc, delivered,
                   gotErr, openCalls, lookups, resolveFail, batchVars,
                   eofSeen, pureVars>>

\* the error forwarder: select { case errChan <- err: ; case <-ctx.Done(): return }
FwdErrSend(p) ==
    /\ mode = "stream" /\ fepc[p] = "send" /\ ~panicked
    /\ IF closed[ErrChan]
       THEN panicked' = TRUE /\ UNCHANGED <<fepc, gotErr>>
       ELSE /\ cpc = "recv"
            /\ gotErr' = [gotErr EXCEPT ![p] = @ + 1]
            /\ fepc' = [fepc EXCEPT ![p] = RangeNext(<<"err", p>>)]
            /\ UNCHANGED panicked
    /\ UNCHANGED <<mode, kind, cancelled, spc, sret, npods, launched, wg, mergeIdx, rpc,
                   rret, rheld, nread, closed, flpc, flheld, cpc, delivered,
                   openCalls, lookups, resolveFail, batchVars, eofSeen, pureVars>>

FwdErrCancel(p) ==
    /\ mode = "stream" /\ fepc[p] = "send" /\ ~panicked
    /\ cancelled
    /\ fepc' = [fepc EXCEPT ![p] = "done"]
    /\ UNCHANGED <<mode, kind, cancelled, panicked, spc, sret, npods, launched, wg,
                   mergeIdx, rpc, rret, rheld, nread, closed, flpc, flheld, cpc,
                   delivered, gotErr, openCalls, lookups, resolveFail, batchVars,
                   eofSeen, pureVars>>

\* -------------------------------------------------- streaming: the caller
\* the interrupt handler of the analyze-logs command calls cancel()
Cancel ==
    /\ mode = "stream" /\ ~cancelled /\ ~panicked
    /\ cancelled' = TRUE
    /\ UNCHANGED <<mode, kind, panicked, spc, sret, npods, launched, wg, mergeIdx, rpc,
                   rret, rheld, nread, closed, flpc, flheld, fepc, cpc, delivered,
                   gotErr, openCalls, lookups, resolveFail, batchVars,
                   eofSeen, pureVars>>

\* the caller's select loop returns: a receive reported a closed channel, or
\* ctx.Done() fired
CallerStop ==
    /\ mode = "stream" /\ cpc = "recv" /\ ~panicked
    /\ closed[LogChan] \/ closed[ErrChan] \/ cancelled
    /\ cpc' = "stopped"
    /\ UNCHANGED <<mode, kind, cancelled, panicked, spc, sret, npods, launched, wg,
                   mergeIdx, rpc, rret, rheld, nread, closed, flpc, flheld, fepc,
                   delivered, gotErr, openCalls, lookups, resolveFail, batchVars,
                   eofSeen, pureVars>>

\* ------------------------------------------------------------- batch
\* switch of GetResourceLogs: which routine a resource type reaches
BatchDispatch(k) ==
    CASE k = "pod" -> "pod"
      [] k \in {"deployment", "deploy"} -> "workload"
      [] k \in {"statefulset", "sts"} -> "workload"
      [] OTHER -> "unsupported"

\* GetPodLogs on stream s: the number of entries and the error it returns.
\* The loop appends one entry per terminated line and returns the volume error as
\* soon as a non-follow read holds more than MaxLogEntries entries; at io.EOF it
\* appends the unterminated last line, if any, and returns without checking the cap.
GetPodLogs(s, follow) ==
    IF ~s.open THEN [n |-> 0, err |-> "open"]
    ELSE IF ~follow /\ s.lines > MaxLogEntries
         THEN [n |-> MaxLogEntries + 1, err |-> "volume"]
    ELSE CASE s.stop = "eof" -> [n |-> s.lines + (IF s.tail THEN 1 ELSE 0), err |-> "nil"]
           [] s.stop = "err" -> [n |-> s.lines, err |-> "read"]
           [] OTHER -> [n |-> s.lines, err |-> "nil"]

\* streams a pod can serve: once ctx is cancelled, Stream(ctx) fails or the loop
\* returns at once with no entry
SourcesNow ==
    IF cancelled
    THEN {s \in Sources : ~s.open \/ (s.lines = 0 /\ ~s.tail /\ s.stop = "cancel")}
    ELSE Sources

\* mutant: a pod's entries are put in front of those collected so far
AppendLogsFront(all, p, n) == IF n = 0 THEN all ELSE <<[pod |-> p, n |-> n]>> \o all

\* allLogs = append(allLogs, logs...): the entries are kept as one run per pod
AppendLogs(all, p, n) == IF n = 0 THEN all ELSE Append(all, [pod |-> p, n |-> n])

RECURSIVE TotalEntries(_)
TotalEntries(all) == IF all = <<>> THEN 0 ELSE Head(all).n + TotalEntries(Tail(all))

\* mutant: the entries are appended before the error is looked at
KeepLogsAlways(res) == TRUE

\* getLogsFromPods: a pod's entries are appended only if GetPodLogs returned no error
KeepLogs(res) == res.err = "nil"

\* the option fields each fmt.Errorf of the batch path puts into its message; the
\* wrapped cause (%w) comes from client-go or the reader and is no field of options
ErrorArgs(err) ==
    CASE err = "open" -> {"ResourceName"}
      [] err = "read" -> {}
      [] err = "volume" -> {}
      [] err = "unsupported" -> {"ResourceType"}
      [] err = "get" -> {"ResourceName"}
      [] err = "list" -> {"ResourceName"}
      [] err = "nologs" -> {"ResourceType", "ResourceName"}
      [] OTHER -> {}

\* GetResourceLogs: dispatch on options.ResourceType
GetResourceLogs ==
    /\ mode = "batch" /\ spc = "entry"
    /\ CASE BatchDispatch(kind) = "pod" ->
              /\ spc' = "podLogs"
              /\ npods' = 1
              /\ UNCHANGED sret
         [] BatchDispatch(kind) = "workload" ->
              /\ spc' = "getWorkload"
              /\ UNCHANGED <<npods, sret>>
         [] OTHER ->
              /\ spc' = "returned"
              /\ sret' = "unsupported"
              /\ UNCHANGED npods
    /\ UNCHANGED <<mode, kind, streamVars, openCalls, lookups, resolveFail, batchVars,
                   pureVars>>

\* case "pod": return c.GetPodLogs(ctx, options)
BatchPodLogs ==
    /\ mode = "batch" /\ spc = "podLogs"
    /\ \E s \in SourcesNow :
         LET res == GetPodLogs(s, FALSE) IN
         /\ src' = [src EXCEPT ![1] = s]
         /\ podResult' = [podResult EXCEPT ![1] = res]
         /\ allLogs' = AppendLogs(<<>>, 1, res.n)
         /\ sret' = res.err
         /\ cancelled' = (cancelled \/ (s.open /\ s.stop = "cancel"))
    /\ openCalls' = openCalls \cup {1}
    /\ spc' = "returned"
    /\ UNCHANGED <<mode, kind, panicked, npods, launched, wg, mergeIdx, rpc, rret, rheld,
                   nread, closed, flpc, flheld, fepc, cpc, delivered, gotErr,
                   lookups, resolveFail, bidx, eofSeen, pureVars>>

\* getDeploymentLogs / getStatefulSetLogs: Get the workload
BatchGetWorkload ==
    /\ mode = "batch" /\ spc = "getWorkload"
    /\ lookups' = lookups + 1
    /\ \E ok \in BOOLEAN :
         IF ok
         THEN spc' = "listPods" /\ UNCHANGED <<sret, resolveFail>>
         ELSE spc' = "returned" /\ sret' = "get" /\ resolveFail' = "get"
    /\ UNCHANGED <<mode, kind, streamVars, npods, openCalls, batchVars, pureVars>>

\* ... then list the pods of its selector and hand pods.Items to getLogsFromPods
BatchListPods ==
    /\ mode = "batch" /\ spc = "listPods"
    /\ \/ /\ spc' = "returned" /\ sret' = "list" /\ resolveFail' = "list"
          /\ UNCHANGED <<npods, bidx>>
       \/ \E n \in 0..MaxPods :
            /\ npods' = n
            /\ bidx' = 1
            /\ spc' = "collect"
            /\ resolveFail' = IF n = 0 THEN "nopods" ELSE "none"
            /\ UNCHANGED sret
    /\ UNCHANGED <<mode, kind, streamVars, openCalls, lookups, src, podResult, allLogs,
                   pureVars>>

\* getLogsFromPods, one iteration of the loop over pods: GetPodLogs of the pod;
\* on error print a warning and continue, else append its entries
CollectPod ==
    /\ mode = "batch" /\ spc = "collect"
    /\ bidx <= npods
    /\ \E s \in SourcesNow :
         LET res == GetPodLogs(s, FALSE) IN
         /\ src' = [src EXCEPT ![bidx] = s]
         /\ podResult' = [podResult EXCEPT ![bidx] = res]
         /\ allLogs' = IF KeepLogs(res) THEN AppendLogs(allLogs, bidx, res.n) ELSE allLogs
         /\ cancelled' = (cancelled \/ (s.open /\ s.stop = "cancel"))
    /\ openCalls' = openCalls \cup {bidx}
    /\ bidx' = bidx + 1
    /\ UNCHANGED <<mode, kind, panicked, spc, sret, npods, launched, wg, mergeIdx, rpc,
                   rret, rheld, nread, closed, flpc, flheld, fepc, cpc, delivered,
                   gotErr, lookups, resolveFail, eofSeen, pureVars>>

\* getLogsFromPods after the loop: len(allLogs) == 0 is the "no logs found" error
CollectReturn ==
    /\ mode = "batch" /\ spc = "collect"
    /\ bidx > npods
    /\ sret' = IF TotalEntries(allLogs) = 0 THEN "nologs" ELSE "nil"
    /\ spc' = "returned"
    /\ UNCHANGED <<mode, kind, streamVars, npods, openCalls, lookups, resolveFail,
                   batchVars, pureVars>>

\* ------------------------------------------------ strings (package strings)
\* A Go string is modelled as the sequence of its characters.
Upper == <<"A", "B", "C", "D", "E", "F", "G", "H", "I", "J", "K", "L", "M",
           "N", "O", "P", "Q", "R", "S", "T", "U", "V", "W", "X", "Y", "Z">>
Lower == <<"a", "b", "c", "d", "e", "f", "g", "h", "i", "j", "k", "l", "m",
           "n", "o", "p", "q", "r", "s", "t", "u", "v", "w", "x", "y", "z">>
Digits == <<"0", "1", "2", "3", "4", "5", "6", "7", "8", "9">>

\* strings.IndexByte: 0-based index of the first c in s, -1 if there is none
IndexByte(s, c) ==
    IF \E i \in 1..Len(s) : s[i] = c
    THEN (CHOOSE i \in 1..Len(s) : s[i] = c /\ \A j \in 1..(i - 1) : s[j] # c) - 1
    ELSE -1

\* strings.Contains
Contains(s, sub) ==
    \E i \in 0..(Len(s) - Len(sub)) : SubSeq(s, i + 1, i + Len(sub)) = sub

\* strings.ToLower
ToLower(s) ==
    [i \in 1..Len(s) |->
        IF \E k \in 1..Len(Upper) : Upper[k] = s[i]
        THEN Lower[CHOOSE k \in 1..Len(Upper) : Upper[k] = s[i]]
        ELSE s[i]]

\* strings.TrimSuffix
TrimSuffix(s, suffix) ==
    IF Len(s) >= Len(suffix) /\ SubSeq(s, Len(s) - Len(suffix) + 1, Len(s)) = suffix
    THEN SubSeq(s, 1, Len(s) - Len(suffix))
    ELSE s

\* strings.Trim: s without its leading and trailing characters that are in cutset
Trim(s, cutset) ==
    LET keep == {i \in 1..Len(s) : s[i] \notin cutset} IN
    IF keep = {} THEN <<>>
    ELSE SubSeq(s, CHOOSE i \in keep : \A j \in keep : i <= j,
                   CHOOSE i \in keep : \A j \in keep : i >= j)

\* strings.Split(s, sep) for a one-character sep: always at least one part
RECURSIVE Split(_, _)
Split(s, sep) ==
    LET i == IndexByte(s, sep) IN
    IF i < 0 THEN <<s>>
    ELSE <<SubSeq(s, 1, i)>> \o Split(SubSeq(s, i + 2, Len(s)), sep)

\* strings.SplitN(s, sep, 2): split at the first sep only
SplitN2(s, sep) ==
    LET i == IndexByte(s, sep) IN
    IF i < 0 THEN <<s>> ELSE <<SubSeq(s, 1, i), SubSeq(s, i + 2, Len(s))>>

\* ------------------------------------------------ time.Parse(time.RFC3339, s)
\* value of the decimal digits s[from..to]
RECURSIVE Atoi(_, _, _)
Atoi(s, from, to) ==
    IF from > to THEN 0
    ELSE Atoi(s, from, to - 1) * 10 + (CHOOSE k \in 1..Len(Digits) : Digits[k] = s[to]) - 1

DaysIn(year, month) ==
    IF month \in {4, 6, 9, 11} THEN 30
    ELSE IF month # 2 THEN 31
    ELSE IF year % 4 = 0 /\ (year % 100 # 0 \/ year % 400 = 0) THEN 29 ELSE 28

\* The UTC form yyyy-mm-ddThh:mm:ssZ of the layout; the lines of this model carry no
\* fractional seconds and no numeric zone offset.  A field out of range is an error.
ParseRFC3339(s) ==
    LET shape ==
            /\ Len(s) = 20
            /\ \A i \in {1, 2, 3, 4, 6, 7, 9, 10, 12, 13, 15, 16, 18, 19} :
                   \E k \in 1..Len(Digits) : Digits[k] = s[i]
            /\ s[5] = "-" /\ s[8] = "-" /\ s[11] = "T"
            /\ s[14] = ":" /\ s[17] = ":" /\ s[20] = "Z"
        t == [year |-> Atoi(s, 1, 4), month |-> Atoi(s, 6, 7), day |-> Atoi(s, 9, 10),
              hour |-> Atoi(s, 12, 13), min |-> Atoi(s, 15, 16), sec |-> Atoi(s, 18, 19)]
    IN  IF shape /\ t.month \in 1..12 /\ t.day \in 1..DaysIn(t.year, t.month)
             /\ t.hour < 24 /\ t.min < 60 /\ t.sec < 60
        THEN [ok |-> TRUE, t |-> t]
        ELSE [ok |-> FALSE, t |-> ZeroTime]

\* ------------------------------------------------------------ parseLogLine
\* time.Now(): the default timestamp, later than every timestamp of a line
TimeNow == [year |-> 2026, month |-> 1, day |-> 1, hour |-> 0, min |-> 0, sec |-> 0]

DEBUG == <<"D", "E", "B", "U", "G">>
INFO == <<"I", "N", "F", "O">>
WARN == <<"W", "A", "R", "N">>
WARNING == <<"W", "A", "R", "N", "I", "N", "G">>
ERROR == <<"E", "R", "R", "O", "R">>
FATAL == <<"F", "A", "T", "A", "L">>

\* mutant: WARNING is tried before its prefix WARN
LevelTokensLongestFirst == <<DEBUG, INFO, WARNING, WARN, ERROR, FATAL>>

\* mutant: the tokens are tried by decreasing severity
LevelTokensBySeverity == <<FATAL, ERROR, WARNING, WARN, INFO, DEBUG>>

\* the candidate list of the level loop, in the order it is walked
LevelTokens == <<DEBUG, INFO, WARN, WARNING, ERROR, FATAL>>

\* for _, level := range [...] { if strings.Contains(line, level) { ...; break } }
\* the level the loop leaves in entry.LogLevel ("" if no token occurs)
ExplicitLevel(text) ==
    LET hits == {k \in 1..Len(LevelTokens) : Contains(text, LevelTokens[k])} IN
    IF hits = {} THEN <<>>
    ELSE LevelTokens[CHOOSE k \in hits : \A j \in hits : k <= j]

\* mutant: 'warn' is looked for before the error keywords
InferLevelWarnFirst(text) ==
    LET lowerLine == ToLower(text) IN
    IF Contains(lowerLine, <<"w", "a", "r", "n">>) THEN WARN
    ELSE IF \/ Contains(lowerLine, <<"e", "r", "r", "o", "r">>)
            \/ Contains(lowerLine, <<"e", "x", "c", "e", "p", "t", "i", "o", "n">>)
            \/ Contains(lowerLine, <<"f", "a", "i", "l">>)
    THEN ERROR
    ELSE INFO

\* the inference from the lower-cased text when no token occurs
InferLevel(text) ==
    LET lowerLine == ToLower(text) IN
    IF \/ Contains(lowerLine, <<"e", "r", "r", "o", "r">>)
       \/ Contains(lowerLine, <<"e", "x", "c", "e", "p", "t", "i", "o", "n">>)
       \/ Contains(lowerLine, <<"f", "a", "i", "l">>)
    THEN ERROR
    ELSE IF Contains(lowerLine, <<"w", "a", "r", "n">>) THEN WARN
    ELSE INFO

Quotes == {"\"", "'"}

\* extractStructuredData, the pairs it puts into entry.Data (made by make(map) in
\* parseLogLine): every space-separated part of the content that contains
\* '=' is split at its first '=', key and value are trimmed of quotes, and
\* entry.Data[key] = value; a later part overwrites an earlier one with the same key
extractStructuredData(content) ==
    LET parts == Split(content, " ")
        kvAt == {i \in 1..Len(parts) : Contains(parts[i], <<"=">>)}
        Key(i) == Trim(SplitN2(parts[i], "=")[1], Quotes)
        Value(i) == Trim(SplitN2(parts[i], "=")[2], Quotes)
        keys == {Key(i) : i \in kvAt}
    IN  [k \in keys |->
            Value(CHOOSE i \in kvAt : Key(i) = k /\ \A j \in kvAt : Key(j) = k => j <= i)]

parseLogLine(raw) ==
    LET trimmed == TrimSuffix(raw, <<"\n">>)
        timestampEnd == IndexByte(trimmed, " ")
        parsed == IF timestampEnd > 0
                  THEN ParseRFC3339(SubSeq(trimmed, 1, timestampEnd))
                  ELSE [ok |-> FALSE, t |-> ZeroTime]
        text == IF parsed.ok THEN SubSeq(trimmed, timestampEnd + 2, Len(trimmed))
                ELSE trimmed
        explicit == ExplicitLevel(text)
    IN  [Timestamp |-> IF parsed.ok THEN parsed.t ELSE TimeNow,
         Content |-> trimmed,
         LogLevel |-> IF explicit # <<>> THEN explicit ELSE InferLevel(text),
         Data |-> [isNil |-> FALSE, kv |-> extractStructuredData(trimmed)]]

\* ---------------------------------------------- inputs of parseLogLine
MaxWords == 3

TS == <<"2", "0", "2", "4", "-", "0", "2", "-", "2", "9", "T",
        "2", "3", ":", "5", "9", ":", "5", "9", "Z">>
\* 2023 is no leap year: the parse fails on the day
BadTS == <<"2", "0", "2", "3", "-", "0", "2", "-", "2", "9", "T",
           "2", "3", ":", "5", "9", ":", "5", "9", "Z">>

Words == {TS, BadTS, DEBUG, INFO, WARN, WARNING, ERROR, FATAL,
          <<"F", "a", "i", "l", "e", "d">>, <<"w", "a", "r", "n", "s">>,
          <<"o", "k">>, <<"a", "=", "'", "b", "'">>, <<>>}

\* the words joined by single spaces (an empty word gives a leading, trailing or
\* doubled space)
RECURSIVE Join(_)
Join(ws) == IF Len(ws) = 1 THEN ws[1] ELSE ws[1] \o <<" ">> \o Join(Tail(ws))

\* lines of one to MaxWords of the given words; ReadString hands a line over with
\* its newline, or without one at io.EOF
LinesOf(words) ==
    LET seqs == UNION {[1..n -> words] : n \in 1..MaxWords}
    IN {Join(ws) : ws \in seqs} \cup {Join(ws) \o <<"\n">> : ws \in seqs}

Lines == LinesOf(Words)

ParseInit ==
    /\ mode = "parse"
    /\ kind = "pod"
    /\ CollectorIdle
    /\ ServiceIdle
    /\ line \in Lines
    /\ entry = NotParsed
    /\ SummaryIdle

\* entry := parseLogLine(line, podName, containerName)
ParseLogLine ==
    /\ mode = "parse"
    /\ entry = NotParsed
    /\ entry' = parseLogLine(line)
    /\ UNCHANGED <<mode, kind, streamVars, npods, spc, sret, openCalls, lookups,
                   resolveFail, batchVars, serviceVars, line, summaryVars>>

ParseNext == ParseLogLine

ParseSpec == ParseInit /\ [][ParseNext]_vars

\* lines for the level inference: words in mixed case that hold a keyword of the
\* inference but no level token, next to a timestamp, a level token and no word
InferLines ==
    LinesOf({TS, WARN, <<>>, <<"o", "k">>,
             <<"E", "r", "r", "o", "r">>, <<"F", "a", "i", "l", "e", "d">>,
             <<"e", "x", "c", "e", "p", "t", "i", "o", "n", "s">>,
             <<"W", "a", "r", "n", "s">>})

InferInit ==
    /\ mode = "parse"
    /\ kind = "pod"
    /\ CollectorIdle
    /\ ServiceIdle
    /\ line \in InferLines
    /\ entry = NotParsed
    /\ SummaryIdle

InferSpec == InferInit /\ [][ParseNext]_vars

\* lines for the key=value extraction: a key given twice with different quoting, a
\* part with two '=', a bare '=', and a part that holds a tab between two pairs
FieldLines ==
    LinesOf({TS, <<>>, <<"o", "k">>,
             <<"a", "=", "1">>, <<"'", "a", "'", "=", "\"", "2", "\"">>,
             <<"b", "=", "x", "=", "y">>, <<"=">>,
             <<"a", "=", "1", "\t", "c", "=", "3">>})

FieldInit ==
    /\ mode = "parse"
    /\ kind = "pod"
    /\ CollectorIdle
    /\ ServiceIdle
    /\ line \in FieldLines
    /\ entry = NotParsed
    /\ SummaryIdle

FieldSpec == FieldInit /\ [][ParseNext]_vars


\* ------------------------------------------------------------- ParseLogs
\* limits of the summary (parser.go)
TopPatterns == 10
TopResources == 5
SpikeMinLogs == 100
SpikeMinBins == 3
SpikeMinCount == 5
RestartLimit == 3
MaxExamples == 3

\* Time is counted in ticks of 30 seconds, two to the minute.
Minute == 2

\* the largest time.Duration, 2^63 - 1 nanoseconds (a little over 292 years), in whole
\* ticks
MaxDuration == 307445734

\* t.Sub(u): the difference t - u, or the largest (smallest) Duration if the
\* difference does not fit one
Sub(t, u) ==
    IF t - u > MaxDuration THEN MaxDuration
    ELSE IF t - u < 0 - MaxDuration THEN 0 - MaxDuration
    ELSE t - u

\* input bounds: records per input; pattern keys and sources one more than the
\* limits that truncate them
MaxEntries == 12
MaxKeys == TopPatterns + 1
MaxSources == TopResources + 1
MaxExampleKeys == 2
MaxExampleEntries == 5

\* Inputs vary one thing at a time: the error pattern keys, the warning pattern
\* keys, the sources, the timestamps, or the keywords the detectors look for.  A key or
\* source is named by the order of its first occurrence among the errors
\* (warnings), so a map's keys are 1..n.
Families == {"errors", "warnings", "sources", "times", "issues", "examples", "range"}
EntryLevels == {ERROR, FATAL, WARN, WARNING, INFO}
Topics == {"none", "restart", "resource", "network", "auth"}

IsError(level) == level \in {ERROR, FATAL}
IsWarning(level) == level \in {WARN, WARNING}

Min(a, b) == IF a <= b THEN a ELSE b

\* levels of the records of an input of family f
LevelsFor(f) ==
    CASE f \in {"errors", "sources"} -> EntryLevels \ {WARN, WARNING}
      [] f = "range" -> {INFO}
      [] f = "warnings" -> EntryLevels \ {ERROR, FATAL}
      [] OTHER -> EntryLevels \ {FATAL, WARNING}

\* pattern keys and sources a record of level lv can carry in an input of family f
KeysFor(f, lv) ==
    IF f = "errors" /\ IsError(lv) THEN 1..Min(MaxKeys, Len(errorMap) + 1)
    ELSE IF f = "warnings" /\ IsWarning(lv) THEN 1..Min(MaxKeys, Len(warningMap) + 1)
    ELSE IF f = "examples" /\ IsError(lv) THEN 1..Min(MaxExampleKeys, Len(errorMap) + 1)
    ELSE IF f = "examples" /\ IsWarning(lv)
         THEN 1..Min(MaxExampleKeys, Len(warningMap) + 1)
    ELSE {1}

SourcesFor(f, lv) ==
    IF f = "sources" /\ IsError(lv) THEN 1..Min(MaxSources, Len(resourceErrorMap) + 1)
    ELSE {1}

\* timestamps of the records of an input of family f: "range" has records 292
\* years and more apart
TimesFor(f) ==
    CASE f = "times" -> {0 - Minute, 0, Minute}
      [] f = "range" -> {0 - (MaxDuration + 1), 0}
      [] OTHER -> {0}

\* records an input of family f can continue with: key stands for the pattern key
\* that extractErrorKey / extractWarningKey derive from the normalized content.  In
\* the family "examples" every record is its own (id is its place in the input);
\* elsewhere the records of one level, key, source, time and topic are equal (id 0).
NextEntries(f) ==
    UNION {{[LogLevel |-> lv, PodName |-> p, key |-> k, Timestamp |-> t, topic |-> tp,
             id |-> IF f = "examples" THEN logs.len + 1 ELSE 0] :
               p \in SourcesFor(f, lv), k \in KeysFor(f, lv),
               t \in TimesFor(f),
               tp \in (IF f = "issues" THEN Topics ELSE {"none"})} :
           lv \in LevelsFor(f)}

\* mutant: a key keeps its latest three records
AddExampleLatest(examplesMap, key, e) ==
    IF key > Len(examplesMap) THEN Append(examplesMap, <<e.id>>)
    ELSE IF Len(examplesMap[key]) < MaxExamples
         THEN [examplesMap EXCEPT ![key] = Append(@, e.id)]
    ELSE [examplesMap EXCEPT ![key] = Append(Tail(@), e.id)]

\* if examples, ok := m[key]; ok && len(examples) < 3 { m[key] = append(examples, entry) }
\* else if !ok { m[key] = []LogEntry{entry} }
AddExample(examplesMap, key, e) ==
    IF key > Len(examplesMap) THEN Append(examplesMap, <<e.id>>)
    ELSE IF Len(examplesMap[key]) < MaxExamples
         THEN [examplesMap EXCEPT ![key] = Append(@, e.id)]
    ELSE examplesMap

\* mutant: the count is set, not incremented
BumpSetsOne(countMap, key) ==
    IF key <= Len(countMap) THEN [countMap EXCEPT ![key] = 1]
    ELSE Append(countMap, 1)

\* countMap[key]++ on a map whose keys are 1..Len
Bump(countMap, key) ==
    IF key <= Len(countMap) THEN [countMap EXCEPT ![key] = @ + 1]
    ELSE Append(countMap, 1)

\* bag[t]++
BumpAt(bag, t) ==
    IF t \in DOMAIN bag THEN [bag EXCEPT ![t] = @ + 1]
    ELSE [x \in DOMAIN bag \cup {t} |-> IF x = t THEN 1 ELSE bag[x]]

\* the time range after the record with timestamp t
TimeRangeWith(tr, t) ==
    [tr EXCEPT !.Start = IF t < @ THEN t ELSE @, !.End = IF t > @ THEN t ELSE @]

\* the record e joins the input
LogsWith(l, e) ==
    [len |-> l.len + 1,
     first |-> IF l.len = 0 THEN e.Timestamp ELSE l.first,
     errorTimes |-> IF IsError(e.LogLevel) THEN BumpAt(l.errorTimes, e.Timestamp)
                    ELSE l.errorTimes,
     restarts |-> l.restarts + (IF e.topic = "restart" THEN 1 ELSE 0),
     topics |-> l.topics \cup ({e.topic} \ {"none", "restart"}),
     times |-> l.times \cup {e.Timestamp},
     entries |-> IF e.id = 0 THEN l.entries
                 ELSE Append(l.entries, [LogLevel |-> e.LogLevel, key |-> e.key])]

\* summary := LogSummary{TotalEntries: len(logs), TimeRange: {logs[0].Timestamp, ...}};
\* len(logs) is known to the model as far as the input has been drawn
NewSummary(e) ==
    [ZeroSummary EXCEPT !.TimeRange = [Start |-> e.Timestamp, End |-> e.Timestamp,
                                       Duration |-> 0, isZero |-> FALSE]]

\* one iteration of the loop over logs, on the summary sum
ProcessEntry(sum, e) ==
    /\ logs' = LogsWith(logs, e)
    /\ summary' = [sum EXCEPT
            !.TotalEntries = logs.len + 1,
            !.TimeRange = TimeRangeWith(@, e.Timestamp),
            !.ErrorCount = IF IsError(e.LogLevel) THEN @ + 1 ELSE @,
            !.WarningCount = IF IsWarning(e.LogLevel) THEN @ + 1 ELSE @]
    /\ errorMap' = IF IsError(e.LogLevel) THEN Bump(errorMap, e.key) ELSE errorMap
    /\ resourceErrorMap' = IF IsError(e.LogLevel) THEN Bump(resourceErrorMap, e.PodName)
                           ELSE resourceErrorMap
    /\ warningMap' = IF IsWarning(e.LogLevel) THEN Bump(warningMap, e.key)
                     ELSE warningMap
    /\ errorExamples' = IF IsError(e.LogLevel) THEN AddExample(errorExamples, e.key, e)
                        ELSE errorExamples
    /\ warningExamples' = IF IsWarning(e.LogLevel)
                          THEN AddExample(warningExamples, e.key, e)
                          ELSE warningExamples

\* mutant: the empty input is not told apart
EmptyLogsUnchecked(n) == FALSE

\* if len(logs) == 0 { return LogSummary{} }
EmptyLogs(n) == n = 0

\* ParseLogs is called.  On the empty input it returns at once (were the check
\* missing, logs[0] would be an index out of range).  Otherwise the summary is set
\* up from logs[0] and the loop runs its first iteration.
ParseLogsCall ==
    /\ mode = "summary" /\ ppc = "idle"
    /\ \/ /\ ppc' = IF EmptyLogs(0) THEN "done" ELSE "panic"
          /\ UNCHANGED <<family, logs, summary, errorMap, warningMap, resourceErrorMap,
                         errorExamples, warningExamples>>
       \/ /\ ~EmptyLogs(1)
          /\ \E f \in Families :
               /\ family' = f
               /\ \E e \in NextEntries(f) : ProcessEntry(NewSummary(e), e)
          /\ ppc' = "loop"
    /\ UNCHANGED <<mode, kind, streamVars, npods, spc, sret, openCalls, lookups,
                   resolveFail, batchVars, serviceVars, parseVars, detectCalls>>

\* the next iteration of the loop
ParseEntry ==
    /\ mode = "summary" /\ ppc = "loop"
    /\ logs.len < (IF family \in {"examples", "range"} THEN MaxExampleEntries
                   ELSE MaxEntries)
    /\ \E e \in NextEntries(family) : ProcessEntry(summary, e)
    /\ UNCHANGED <<mode, kind, streamVars, npods, spc, sret, openCalls, lookups,
                   resolveFail, batchVars, serviceVars, parseVars, ppc, family,
                   detectCalls>>

\* ---------------------------------------------------- the conversions
\* for key, count := range countMap: Go starts a map iteration at a place of its
\* choice; the model takes the rotations of the key order
IterationOrders(n) == {[i \in 1..n |-> ((first + i - 2) % n) + 1] : first \in 1..n}
                          \cup (IF n = 0 THEN {<<>>} ELSE {})

\* sort.Slice(..., func(i, j) bool { return x[i].Count > x[j].Count }) on a sequence
\* of <<name, count>> pairs; elements of equal count keep their order (the insertion
\* sort sort.Slice uses on slices this short)
RECURSIVE SortDesc(_, _)
SortDesc(pairs, idxs) ==
    IF idxs = {} THEN <<>>
    ELSE LET best == CHOOSE i \in idxs : \A j \in idxs :
                        \/ pairs[i][2] > pairs[j][2]
                        \/ pairs[i][2] = pairs[j][2] /\ i <= j
         IN  <<pairs[best]>> \o SortDesc(pairs, idxs \ {best})

\* the map's pairs in iteration order, sorted by count, cut to the first top
TopByCount(countMap, order, top) ==
    LET pairs == [i \in 1..Len(order) |-> <<order[i], countMap[order[i]]>>]
        sorted == SortDesc(pairs, 1..Len(pairs))
    IN  IF Len(sorted) > top THEN SubSeq(sorted, 1, top) ELSE sorted

convertToPatterns(countMap, examplesMap, order) ==
    LET t == TopByCount(countMap, order, TopPatterns) IN
    [i \in 1..Len(t) |->
        [Pattern |-> t[i][1], Count |-> t[i][2], Examples |-> examplesMap[t[i][1]]]]

\* mutant: the slice is cut to the limit without having been sorted
convertToResourceErrorsUnsorted(resourceMap, order) ==
    LET n == IF Len(order) > TopResources THEN TopResources ELSE Len(order) IN
    [i \in 1..n |-> [ResourceName |-> order[i], ErrorCount |-> resourceMap[order[i]]]]

convertToResourceErrors(resourceMap, order) ==
    LET t == TopByCount(resourceMap, order, TopResources) IN
    [i \in 1..Len(t) |-> [ResourceName |-> t[i][1], ErrorCount |-> t[i][2]]]

\* ------------------------------------------------------- detectIssues
\* int(d.Minutes()): the minutes in d ticks, truncated toward zero
MinuteOffset(d) == IF d >= 0 THEN d \div Minute ELSE 0 - ((0 - d) \div Minute)

RECURSIVE SumOver(_, _)
SumOver(f, dom) ==
    IF dom = {} THEN 0
    ELSE LET x == CHOOSE y \in dom : TRUE IN f[x] + SumOver(f, dom \ {x})

\* errorsByMinute[minuteOffset]++ for every ERROR/FATAL record
ErrorsByMinute(l) ==
    LET minutes == {MinuteOffset(Sub(t, l.first)) : t \in DOMAIN l.errorTimes} IN
    [m \in minutes |->
        SumOver(l.errorTimes,
                {t \in DOMAIN l.errorTimes : MinuteOffset(Sub(t, l.first)) = m})]

\* average(values) = sum / n and standardDeviation(values, avg), which returns the
\* variance sum((v - avg)^2) / (n - 1) without taking its root.  With S the sum of
\* the n values, count > avg + 2*stdDev is, multiplied by n*n*(n-1):
\*     count*n*n*(n-1) > S*n*(n-1) + 2 * sum((n*v - S)^2)
\* mutant: the spread is left out of the threshold (count > avg)
AboveAverage(count, values) ==
    count * Cardinality(DOMAIN values) > SumOver(values, DOMAIN values)

AboveSpread(count, values) ==
    LET n == Cardinality(DOMAIN values)
        S == SumOver(values, DOMAIN values)
        sq == [m \in DOMAIN values |-> (n * values[m] - S) * (n * values[m] - S)]
    IN  count * n * n * (n - 1) > S * n * (n - 1) + 2 * SumOver(sq, DOMAIN sq)

hasErrorSpikes(l) ==
    IF l.len < SpikeMinLogs THEN FALSE
    ELSE LET errorCounts == ErrorsByMinute(l) IN
         IF Cardinality(DOMAIN errorCounts) < SpikeMinBins THEN FALSE
         ELSE \E m \in DOMAIN errorCounts :
                 /\ AboveSpread(errorCounts[m], errorCounts)
                 /\ errorCounts[m] > SpikeMinCount

\* mutant: an error rate of exactly 10% counts as high
HighErrorRateInclusive(sum) == 10 * sum.ErrorCount >= sum.TotalEntries

\* float64(ErrorCount) / float64(TotalEntries) > 0.1; for counts below 2^50 the
\* quotient rounds to a float above 0.1 exactly when it is above one tenth
HighErrorRate(sum) == 10 * sum.ErrorCount > sum.TotalEntries

detectIssues(l, sum) ==
    (IF HighErrorRate(sum) THEN <<"High error rate detected in logs">> ELSE <<>>)
    \o (IF hasErrorSpikes(l)
        THEN <<"Error spikes detected - possible service disruption">> ELSE <<>>)
    \o (IF l.restarts > RestartLimit
        THEN <<"Pod restart pattern detected - possible crash loop">> ELSE <<>>)
    \o (IF "resource" \in l.topics
        THEN <<"Resource constraint issues detected (OOM, CPU throttling)">> ELSE <<>>)
    \o (IF "network" \in l.topics
        THEN <<"Network connectivity issues detected">> ELSE <<>>)
    \o (IF "auth" \in l.topics
        THEN <<"Authentication or authorization issues detected">> ELSE <<>>)

\* the input has ended: the duration, the three conversions and detectIssues
ParseReturn ==
    /\ mode = "summary" /\ ppc = "loop"
    /\ \E oe \in IterationOrders(Len(errorMap)), ow \in IterationOrders(Len(warningMap)),
          orr \in IterationOrders(Len(resourceErrorMap)) :
         LET counted == [summary EXCEPT
                 !.TimeRange.Duration = Sub(summary.TimeRange.End, summary.TimeRange.Start),
                 !.CommonErrors = convertToPatterns(errorMap, errorExamples, oe),
                 !.CommonWarnings = convertToPatterns(warningMap, warningExamples, ow),
                 !.ErrorHotspots = convertToResourceErrors(resourceErrorMap, orr)]
         IN  summary' = [counted EXCEPT !.PotentialIssues = detectIssues(logs, counted)]
    /\ detectCalls' = detectCalls + 1
    /\ ppc' = "done"
    /\ UNCHANGED <<mode, kind, streamVars, npods, spc, sret, openCalls, lookups,
                   resolveFail, batchVars, serviceVars, parseVars, family, logs, errorMap,
                   warningMap, resourceErrorMap, errorExamples, warningExamples>>

SummaryInit ==
    /\ mode = "summary"
    /\ kind = "pod"
    /\ CollectorIdle
    /\ ServiceIdle
    /\ ParserIdle
    /\ SummaryIdle

SummaryNext == ParseLogsCall \/ ParseEntry \/ ParseReturn

SummarySpec == SummaryInit /\ [][SummaryNext]_vars


\* --------------------------------------- detectIssues on a larger input
\* Inputs of detectIssues: 99 or 100 records, the first at tick 0, with
\* ERROR/FATAL records at minutes 0, 1, ..., 4 (five one-minute bins), no
\* container starts and no detector keywords; summary holds what ParseLogs counted.
BinTimes == {0, Minute, 2 * Minute, 3 * Minute, 4 * Minute}

\* the bag of error timestamps with count c[t] at tick t, and x.n at tick x.t
ErrorTimesOf(c, x) ==
    [t \in {y \in BinTimes : c[y] > 0} \cup (IF x.n > 0 THEN {x.t} ELSE {}) |->
        IF t = x.t THEN x.n ELSE c[t]]

\* x: besides, no or one more ERROR/FATAL record in a sixth minute, or half a
\* minute before logs[0]
DetectInputs ==
    {[len |-> n, first |-> 0, errorTimes |-> ErrorTimesOf(c, x), restarts |-> 0,
      topics |-> {}, times |-> {0} \cup DOMAIN ErrorTimesOf(c, x),
      entries |-> <<>>] : n \in {SpikeMinLogs - 1, SpikeMinLogs},
                       x \in {[t |-> 5 * Minute, n |-> 0], [t |-> 5 * Minute, n |-> 1],
                              [t |-> 0 - 1, n |-> 1]},
                       c \in {d \in [BinTimes -> {0, 1, 4, 6, 7, 20}] :
                                 SumOver(d, BinTimes) < SpikeMinLogs - 1}}

\* inputs with container starts and detector keywords: errors that make a spike
\* (6, 6, 6, 7 in four bins) or a single error
IssueInputs ==
    {[len |-> SpikeMinLogs, first |-> 0, errorTimes |-> et, restarts |-> r,
      topics |-> tp, times |-> {0} \cup DOMAIN et, entries |-> <<>>] :
        et \in {[t \in {0} |-> 1],
                [t \in BinTimes \ {0} |-> IF t = Minute THEN 7 ELSE 6]},
        r \in {RestartLimit, RestartLimit + 1},
        tp \in SUBSET (Topics \ {"none", "restart"})}

DetectInit ==
    /\ mode = "detect"
    /\ kind = "pod"
    /\ CollectorIdle
    /\ ServiceIdle
    /\ ParserIdle
    /\ ppc = "idle"
    /\ family = "none"
    /\ logs \in DetectInputs \cup IssueInputs
    /\ summary = [ZeroSummary EXCEPT
                      !.TotalEntries = logs.len,
                      !.ErrorCount = SumOver(logs.errorTimes, DOMAIN logs.errorTimes)]
    /\ errorMap = <<>>
    /\ warningMap = <<>>
    /\ resourceErrorMap = <<>>
    /\ errorExamples = <<>>
    /\ warningExamples = <<>>
    /\ detectCalls = 0

\* summary.PotentialIssues = detectIssues(logs, summary)
DetectIssuesCall ==
    /\ mode = "detect" /\ ppc = "idle"
    /\ summary' = [summary EXCEPT !.PotentialIssues = detectIssues(logs, summary)]
    /\ detectCalls' = detectCalls + 1
    /\ ppc' = "done"
    /\ UNCHANGED <<mode, kind, streamVars, npods, spc, sret, openCalls, lookups,
                   resolveFail, batchVars, serviceVars, parseVars, family, logs, errorMap,
                   warningMap, resourceErrorMap, errorExamples, warningExamples>>

DetectNext == DetectIssuesCall

DetectSpec == DetectInit /\ [][DetectNext]_vars

\* ------------------------------------------------------------------
\* ai.Service: the active provider and the configuration it was built from

\* providers.GetProviderTypes()
GetProviderTypes == <<"ollama", "openai", "anthropic", "gemini", "anythingllm">>

\* model names, as sequences of characters
Llama33 == <<"l", "l", "a", "m", "a", "3", ".", "3">>
Gpt35Turbo == <<"g", "p", "t", "-", "3", ".", "5", "-", "t", "u", "r", "b", "o">>
Claude3Haiku == <<"c", "l", "a", "u", "d", "e", "-", "3", "-", "h", "a", "i", "k", "u",
                  "-", "2", "0", "2", "4", "0", "3", "0", "7">>
Gemini15Pro == <<"g", "e", "m", "i", "n", "i", "-", "1", ".", "5", "-", "p", "r", "o">>
DefaultName == <<"d", "e", "f", "a", "u", "l", "t">>

\* the names a caller passes: every supported provider and one that is not, the
\* model each provider defaults to, two other models, and the empty string
ProviderNames == {GetProviderTypes[i] : i \in DOMAIN GetProviderTypes} \cup {"bedrock"}
ModelNames == {<<>>, Llama33, Gpt35Turbo, Claude3Haiku, Gemini15Pro, DefaultName,
               <<"c", "o", "d", "e", "l", "l", "a", "m", "a">>, <<"g", "p", "t", "-", "4">>}

Supported(providerName) ==
    \E i \in DOMAIN GetProviderTypes : GetProviderTypes[i] = providerName

\* the model a provider's constructor falls back to when it is handed ""
FallbackModel(name) ==
    CASE name = "ollama" -> Llama33
      [] name = "openai" -> Gpt35Turbo
      [] name = "anthropic" -> Claude3Haiku
      [] name = "gemini" -> Gemini15Pro

\* NewOllamaProvider, NewOpenAIProvider, NewAnthropicProvider, NewGeminiProvider:
\* config.ModelName is the name handed in, or the provider's own default for ""
NewProvider(name, modelName) ==
    [name |-> name,
     ModelName |-> IF modelName = <<>> THEN FallbackModel(name) ELSE modelName]

\* providers.CreateProvider(providerType, providerConfig); NewAnythingLLMProvider
\* never sets config.ModelName
CreateProvider(providerType, modelName) ==
    IF ~Supported(providerType) THEN [err |-> TRUE, provider |-> NoProvider]
    ELSE [err |-> FALSE,
          provider |-> IF providerType = "anythingllm"
                       THEN [name |-> "anythingllm", ModelName |-> <<>>]
                       ELSE NewProvider(providerType, modelName)]

\* Provider.GetModelName(): AnythingLLM answers "default" whatever it was told
GetModelName(p) == IF p.name = "anythingllm" THEN DefaultName ELSE p.ModelName

\* Provider.SetModelName(modelName): a no-op for AnythingLLM
ProviderSetModelName(p, modelName) ==
    IF p.name = "anythingllm" THEN p ELSE [p EXCEPT !.ModelName = modelName]

\* Service.GetCurrentProvider(), Service.GetCurrentModel()
GetCurrentProvider == provider.name
GetCurrentModel == GetModelName(provider)

\* Config.SaveConfig(): the file holds c afterwards, unless the write failed
SaveConfig(file, c, ok) == IF ok THEN c ELSE file

\* the switch of SwitchProvider: the default model the new provider gets
SwitchedModel(providerName, defaultModel) ==
    CASE providerName = "ollama" ->
             IF defaultModel = <<>> \/ ~Contains(defaultModel, <<"l", "l", "a", "m", "a">>)
             THEN Llama33 ELSE defaultModel
      [] providerName \in {"openai", "anthropic", "gemini"} ->
             IF defaultModel = <<>> \/ Contains(defaultModel, <<"l", "l", "a", "m", "a">>)
             THEN FallbackModel(providerName) ELSE defaultModel
      [] providerName = "anythingllm" -> DefaultName

\* NewService(cfg): the provider the configuration names, or Ollama with the
\* configured model if that provider cannot be created
NewService(cfg, ok) ==
    LET made == CreateProvider(cfg.AIProvider, cfg.DefaultModel)
        fell == [cfg EXCEPT !.AIProvider = "ollama"]
    IN IF made.err
       THEN [provider |-> NewProvider("ollama", cfg.DefaultModel), config |-> fell,
             file |-> SaveConfig(cfg, fell, ok)]
       ELSE [provider |-> made.provider, config |-> cfg, file |-> cfg]

\* config.LoadConfig() handed to NewService: the file's content, whatever it names
ServiceInit ==
    /\ mode = "service"
    /\ kind = "pod"
    /\ CollectorIdle
    /\ ParserIdle
    /\ SummaryIdle
    /\ \E cfg \in [AIProvider : ProviderNames, DefaultModel : ModelNames],
          ok \in BOOLEAN :
         LET svc == NewService(cfg, ok)
         IN /\ provider = svc.provider
            /\ config = svc.config
            /\ configFile = svc.file
    /\ serviceRet = "pending"
    /\ serviceWas = [provider |-> NoProvider, config |-> NoConfig]

\* err := s.SwitchProvider(providerName)
SwitchProvider ==
    /\ mode = "service"
    /\ \E providerName \in ProviderNames, ok \in BOOLEAN :
         IF ~Supported(providerName)
         THEN /\ serviceRet' = "unsupported provider"
              /\ UNCHANGED <<provider, config, configFile>>
         ELSE LET cfg == [AIProvider |-> providerName,
                          DefaultModel |-> SwitchedModel(providerName,
                                                         config.DefaultModel)]
                  made == CreateProvider(providerName, cfg.DefaultModel)
              IN /\ config' = cfg
                 /\ IF made.err
                    THEN /\ serviceRet' = "error creating provider"
                         /\ UNCHANGED <<provider, configFile>>
                    ELSE /\ provider' = made.provider
                         /\ configFile' = SaveConfig(configFile, cfg, ok)
                         /\ serviceRet' = IF ok THEN "nil"
                                          ELSE "error saving configuration"
    /\ serviceWas' = [provider |-> provider, config |-> config]
    /\ UNCHANGED <<mode, kind, streamVars, npods, spc, sret, openCalls, lookups,
                   resolveFail, batchVars, parseVars, summaryVars>>

\* s.SetModelName(modelName): the provider is told, then Config.UpdateModel stores
\* the name and saves, dropping SaveConfig's error
SetModelName ==
    /\ mode = "service"
    /\ \E modelName \in ModelNames, ok \in BOOLEAN :
         LET cfg == [config EXCEPT !.DefaultModel = modelName]
         IN /\ provider' = ProviderSetModelName(provider, modelName)
            /\ config' = cfg
            /\ configFile' = SaveConfig(configFile, cfg, ok)
    /\ serviceRet' = "void"
    /\ serviceWas' = [provider |-> provider, config |-> config]
    /\ UNCHANGED <<mode, kind, streamVars, npods, spc, sret, openCalls, lookups,
                   resolveFail, batchVars, parseVars, summaryVars>>

ServiceNext == SwitchProvider \/ SetModelName

ServiceSpec == ServiceInit /\ [][ServiceNext]_vars

BatchNext ==
    \/ GetResourceLogs
    \/ BatchPodLogs
    \/ BatchGetWorkload
    \/ BatchListPods
    \/ CollectPod
    \/ CollectReturn

StreamNext ==
    \/ StreamLogs
    \/ StreamGetWorkload
    \/ StreamListPods
    \/ LaunchReader
    \/ StartMerge
    \/ WaitReaders
    \/ FanInCloseErr
    \/ FanInCloseLog
    \/ \E p \in Pods :
         \/ ReaderOpen(p)
         \/ ReaderSelect(p)
         \/ ReaderReadLine(p)
         \/ ReaderReadEOF(p)
         \/ ReaderReadErr(p)
         \/ ReaderSendLog(p)
         \/ ReaderSendLogCancel(p)
         \/ ReaderSendErr(p)
         \/ ReaderCloseErr(p)
         \/ ReaderCloseLog(p)
         \/ FwdLogSend(p)
         \/ FwdLogCancel(p)
         \/ FwdErrSend(p)
         \/ FwdErrCancel(p)
    \/ Cancel
    \/ CallerStop

Next == StreamNext \/ BatchNext

Spec == Init /\ [][Next]_vars

\* The Go scheduler runs every goroutine that can take a step: weak fairness per
\* goroutine.  The interrupt (Cancel) is up to the user and gets none.
MainStep ==
    \/ StreamLogs \/ StreamGetWorkload \/ StreamListPods \/ LaunchReader \/ StartMerge
    \/ WaitReaders \/ FanInCloseErr \/ FanInCloseLog \/ BatchNext

ReaderStep(p) ==
    \/ ReaderOpen(p) \/ ReaderSelect(p) \/ ReaderReadLine(p) \/ ReaderReadEOF(p)
    \/ ReaderReadErr(p) \/ ReaderSendLog(p) \/ ReaderSendLogCancel(p)
    \/ ReaderSendErr(p) \/ ReaderCloseErr(p) \/ ReaderCloseLog(p)

FairSpec ==
    /\ Init /\ [][Next]_vars
    /\ WF_vars(MainStep)
    /\ WF_vars(CallerStop)
    /\ \A p \in Pods : /\ WF_vars(ReaderStep(p))
                       /\ WF_vars(FwdLogSend(p) \/ FwdLogCancel(p))
                       /\ WF_vars(FwdErrSend(p) \/ FwdErrCancel(p))


\* =============================================================== claims
IsFanIn == mode = "stream" /\ StreamDispatch(kind) = "workload"

\* the streaming call is over: the process panicked, or the call returned and no
\* forwarder still holds something to send
StreamOver ==
    \/ panicked
    \/ /\ spc = "returned"
       /\ \A p \in Pods : flpc[p] # "send" /\ fepc[p] # "send"

\* C1: in the fan-in no goroutine ever sends on a caller-facing channel that is
\* already closed (such a send is a runtime panic)
C1_NoSendOnClosedChannel == ~panicked

\* C2: once ctx is cancelled every streaming reader eventually exits (the call has
\* returned with no reader left running, or the process is gone)
ReadersGone ==
    \/ panicked
    \/ spc = "returned" /\ \A p \in Pods : rpc[p] \in {"idle", "done"}

C2_ReadersExitAfterCancel == (mode = "stream" /\ cancelled) ~> ReadersGone

\* C3: the fan-in call is past wg.Wait() (closing, or returned) only when every
\* reader it launched has exited
C3_FanInReturnsAfterReaders ==
    (IsFanIn /\ spc \in {"closeErr", "closeLog", "returned"})
        => \A p \in Pods : IF p <= launched THEN rpc[p] = "done" ELSE rpc[p] = "idle"

C3_Witness ==
    /\ IsFanIn /\ spc = "returned" /\ sret = "nil"
    /\ launched = 2 /\ nread[1] > 0 /\ nread[2] > 0

\* C4: with ctx never cancelled, once the streaming call is over the caller has
\* received an error for every source whose stream failed to open or to read
C4_FailuresForwarded ==
    (mode = "stream" /\ ~cancelled /\ StreamOver)
        => \A p \in Pods : rret[p] \in {"open", "read"} => gotErr[p] >= 1

\* C5: with ctx never cancelled, once the fan-in is over no record that a reader read
\* after a sibling had failed is left undelivered in a reader's or forwarder's hands
C5_SiblingRecordsDelivered ==
    (IsFanIn /\ ~cancelled /\ StreamOver)
        => \A p \in Pods : ~flheld[p].late /\ ~rheld[p].late

\* C6: per source, the caller receives the lines in the order they were read, each
\* at most once: what it holds of pod p is always lines 1..k of p, k <= lines read
C6_PerSourceOrder ==
    \A p \in Pods :
        /\ Len(delivered[p]) <= nread[p]
        /\ \A i \in 1..Len(delivered[p]) : delivered[p][i] = i

C6_Witness == IsFanIn /\ delivered[2] = <<1, 2>> /\ spc = "wait"

\* what a multi-source batch must return: per pod in listing order, the entries of
\* the pods whose GetPodLogs returned no error
RECURSIVE ExpectedLogs(_)
ExpectedLogs(k) ==
    IF k = 0 THEN <<>>
    ELSE IF podResult[k].err = "nil" /\ podResult[k].n > 0
         THEN Append(ExpectedLogs(k - 1), [pod |-> k, n |-> podResult[k].n])
         ELSE ExpectedLogs(k - 1)

\* C7: a multi-source batch whose pods were listed returns "no logs found" exactly
\* when the error-free sources yielded no record, and otherwise returns, with no
\* error, exactly the records of the error-free sources
C7_PartialFailure ==
    (mode = "batch" /\ BatchDispatch(kind) = "workload" /\ spc = "returned"
       /\ resolveFail \notin {"get", "list"})
        => /\ sret \in {"nil", "nologs"}
           /\ sret = "nologs" <=> TotalEntries(ExpectedLogs(npods)) = 0
           /\ sret = "nil" => allLogs = ExpectedLogs(npods)

C7_Witness ==
    /\ mode = "batch" /\ BatchDispatch(kind) = "workload" /\ spc = "returned"
    /\ npods = 2 /\ sret = "nil"
    /\ podResult[1].err = "open" /\ podResult[2].err = "nil" /\ podResult[2].n = 1

\* number of lines pod stream s produces
SourceLines(s) == s.lines + (IF s.stop = "eof" /\ s.tail THEN 1 ELSE 0)

\* C8: a batch call returns the volume error whenever one of its sources produced
\* more than 10,000 lines
C8_VolumeCapFailsCall ==
    (mode = "batch" /\ spc = "returned"
       /\ \E p \in Pods : src[p].open /\ SourceLines(src[p]) > MaxLogEntries)
        => sret = "volume"

\* C9: a resource kind outside {pod, deployment, statefulset} makes either entry
\* point return the unsupported-kind error, with no workload lookup and no stream
C9_UnsupportedKindRejected ==
    kind \notin {"pod", "deployment", "statefulset"}
        => /\ lookups = 0
           /\ openCalls = {}
           /\ spc = "returned" => sret = "unsupported"

\* C10: when workload resolution fails (lookup error, listing error, no pod), no
\* stream is opened, no record is emitted, and the call returns an error
C10_ResolutionFailure ==
    resolveFail # "none"
        => /\ openCalls = {}
           /\ \A p \in Pods : delivered[p] = <<>> /\ nread[p] = 0
           /\ allLogs = <<>>
           /\ spc = "returned" => sret \notin {"nil", "pending"}

C10_Witness == mode = "stream" /\ resolveFail = "nopods" /\ spc = "returned"

\* ------------------------------------------------ claims on parseLogLine
\* parseLogLine has returned
Parsed == mode = "parse" /\ entry.LogLevel # <<>>

\* the line without its newline, the end of its first word, and whether that word
\* is an RFC3339 timestamp followed by a space
LineText == TrimSuffix(line, <<"\n">>)
FirstSpace == IndexByte(LineText, " ")
HasTimestamp == FirstSpace > 0 /\ ParseRFC3339(SubSeq(LineText, 1, FirstSpace)).ok
RestOfLine == IF HasTimestamp THEN SubSeq(LineText, FirstSpace + 2, Len(LineText))
              ELSE LineText

\* C11: for a line '<RFC3339 timestamp> <rest>' the record's timestamp is that
\* timestamp and its content is <rest>, without the timestamp prefix
C11_ContentIsRest ==
    (Parsed /\ HasTimestamp)
        => /\ entry.Timestamp = ParseRFC3339(SubSeq(LineText, 1, FirstSpace)).t
           /\ entry.Content = RestOfLine

\* C12: every parsed record, the empty line's included, has a non-nil fields map
\* and a level among DEBUG, INFO, WARN, ERROR, FATAL (never WARNING, never empty)
C12_LevelInEnum ==
    Parsed => /\ ~entry.Data.isNil
              /\ entry.LogLevel \in {DEBUG, INFO, WARN, ERROR, FATAL}

C12_Witness == Parsed /\ Contains(RestOfLine, WARNING) /\ entry.LogLevel = WARN

\* the order in which the claim ranks the tokens
TokenOrder == <<DEBUG, INFO, WARN, WARNING, ERROR, FATAL>>
TokensIn(text) == {k \in 1..Len(TokenOrder) : Contains(text, TokenOrder[k])}

\* C13: when the text after the timestamp contains a level token, the level is the
\* first token of DEBUG, INFO, WARN, WARNING, ERROR, FATAL that occurs in it,
\* wherever it stands and whatever its severity
C13_FirstTokenWins ==
    (Parsed /\ TokensIn(RestOfLine) # {})
        => \E k \in TokensIn(RestOfLine) :
              /\ \A j \in TokensIn(RestOfLine) : k <= j
              /\ entry.LogLevel = TokenOrder[k]

C13_Witness ==
    /\ Parsed /\ HasTimestamp
    /\ Contains(RestOfLine, ERROR) /\ Contains(RestOfLine, WARN)
    /\ IndexByte(RestOfLine, "E") = 0
    /\ entry.LogLevel = WARN

\* --------------------------------------------------- claims on ParseLogs
\* ParseLogs has returned its summary
Summarized == mode = "summary" /\ ppc = "done"

ListedErrors == SumOver([i \in 1..Len(summary.CommonErrors) |-> summary.CommonErrors[i].Count],
                        1..Len(summary.CommonErrors))

C15_HotspotsRanked ==
    Summarized
        => LET h == summary.ErrorHotspots IN
           /\ Len(h) = Min(5, Len(resourceErrorMap))
           /\ \A i, j \in 1..Len(h) :
                 /\ i < j => h[i].ErrorCount >= h[j].ErrorCount
                 /\ i # j => h[i].ResourceName # h[j].ResourceName
           /\ \A i \in 1..Len(h) :
                 /\ h[i].ResourceName \in 1..Len(resourceErrorMap)
                 /\ h[i].ErrorCount = resourceErrorMap[h[i].ResourceName]
                 /\ \A r \in 1..Len(resourceErrorMap) :
                       (\A k \in 1..Len(h) : h[k].ResourceName # r)
                           => resourceErrorMap[r] <= h[i].ErrorCount

\* six sources, the one with most errors is not the first that failed, and the
\* list is cut to five
C15_Witness ==
    /\ Summarized /\ Len(resourceErrorMap) = 6 /\ Len(summary.ErrorHotspots) = 5
    /\ summary.ErrorHotspots[1].ResourceName = 3
    /\ summary.ErrorHotspots[1].ErrorCount > summary.ErrorHotspots[2].ErrorCount
    /\ summary.ErrorHotspots[2].ErrorCount > summary.ErrorHotspots[5].ErrorCount

\* C16: on the empty input ParseLogs returns, without failing, the zero summary
\* (counts 0, empty lists, zero time range), and detectIssues is not called
C16_EmptyInput ==
    (mode = "summary" /\ ppc # "idle" /\ logs.len = 0)
        => /\ ppc = "done"
           /\ summary.TotalEntries = 0 /\ summary.ErrorCount = 0
           /\ summary.WarningCount = 0
           /\ summary.CommonErrors = <<>> /\ summary.CommonWarnings = <<>>
           /\ summary.ErrorHotspots = <<>> /\ summary.PotentialIssues = <<>>
           /\ summary.TimeRange.isZero /\ summary.TimeRange.Duration = 0
           /\ detectCalls = 0

C16_Witness == Summarized /\ logs.len = 0 /\ family = "none"

\* ------------------------------------------------ claims on detectIssues
SpikeMessage == "Error spikes detected - possible service disruption"
Flagged(msg) == \E i \in 1..Len(summary.PotentialIssues) : summary.PotentialIssues[i] = msg

\* detectIssues has run on 100 records whose errors fill the five bins with one
\* error each in the first four and top errors in the last
FiveBins(top) ==
    /\ mode = "detect" /\ ppc = "done" /\ logs.len = 100
    /\ logs.errorTimes = [t \in BinTimes |-> IF t = 4 * Minute THEN top ELSE 1]

\* C17: 100 records over 5 one-minute bins with ERROR/FATAL counts [1,1,1,1,20]
\* get the error-spike message; with a maximum bin count of 4 they do not
C17_SpikeExample ==
    /\ FiveBins(20) => Flagged(SpikeMessage)
    /\ FiveBins(4) => ~Flagged(SpikeMessage)

\* C17 as amended: neither input gets the error-spike message (20 is not above the
\* bins' mean plus twice their spread, and 4 is not above 5)
C17_NoSpikeInFiveBins ==
    \A top \in {4, 20} : FiveBins(top) => ~Flagged(SpikeMessage)

C17_Witness ==
    /\ FiveBins(20) /\ ~Flagged(SpikeMessage)
    /\ Flagged("High error rate detected in logs")

\* ------------------------------------------------------------------
\* C18: every fatal error a batch collection returns for a failed open, a failed
\* read, an exceeded volume cap, no logs found or a workload that cannot be got
\* carries the name of the pod or workload concerned
FatalBatchErrors == {"open", "read", "volume", "nologs", "get"}

C18_ErrorNamesSource ==
    (mode = "batch" /\ spc = "returned" /\ sret \in FatalBatchErrors)
        => "ResourceName" \in ErrorArgs(sret)

\* ------------------------------------------------------------------
\* C19: the reader of a single-pod stream has left its loop, or a channel of the
\* caller is closed, only if the context was cancelled, the stream failed to open
\* or a read failed with an error other than io.EOF; io.EOF alone never ends it
ReaderStopped ==
    rpc[1] \in {"closeErr", "closeLog", "done"} \/ closed[LogChan] \/ closed[ErrChan]

C19_EOFNeverStops ==
    (mode = "stream" /\ kind = "pod" /\ ReaderStopped)
        => (cancelled \/ rret[1] \in {"open", "read"})

\* the stream has returned io.EOF and nothing else, and the reader is back at the
\* top of its loop with both channels open
C19_Witness ==
    /\ mode = "stream" /\ kind = "pod"
    /\ eofSeen /\ nread[1] = 0 /\ ~cancelled
    /\ rpc[1] = "loop" /\ rret[1] = "pending"
    /\ ~closed[LogChan] /\ ~closed[ErrChan]

\* ------------------------------------------------------------------
\* C20: the records a multi-source batch has collected are whole per-source runs,
\* one run per source, laid out in listing order (so no two sources interleave),
\* each run holding all the lines read from its source; a source is opened only
\* after every source listed before it has been read
C20_ConcatInListingOrder ==
    (mode = "batch" /\ BatchDispatch(kind) = "workload" /\ spc \in {"collect", "returned"})
        => /\ \A i, j \in DOMAIN allLogs : i < j => allLogs[i].pod < allLogs[j].pod
           /\ \A i \in DOMAIN allLogs :
                 /\ allLogs[i].pod \in openCalls
                 /\ allLogs[i].n = SourceLines(src[allLogs[i].pod])
           /\ spc = "collect" => openCalls = 1..(bidx - 1)

\* two sources both yielded records and the call returned them
C20_Witness ==
    /\ mode = "batch" /\ BatchDispatch(kind) = "workload" /\ spc = "returned"
    /\ sret = "nil" /\ npods = 2
    /\ Len(allLogs) = 2 /\ allLogs[1].n > 1 /\ allLogs[2].n = 1

\* ------------------------------------------------------------------
\* C21: when the text after the timestamp holds no level token, the level is ERROR
\* if the lower-cased text contains 'error', 'exception' or 'fail', else WARN if
\* it contains 'warn', else INFO; the empty line is INFO
LowerRest == ToLower(RestOfLine)

ErrorKeywords == {<<"e", "r", "r", "o", "r">>,
                  <<"e", "x", "c", "e", "p", "t", "i", "o", "n">>,
                  <<"f", "a", "i", "l">>}

HasErrorKeyword == \E w \in ErrorKeywords : Contains(LowerRest, w)
HasWarnKeyword == Contains(LowerRest, <<"w", "a", "r", "n">>)

C21_InferredLevel ==
    (Parsed /\ TokensIn(RestOfLine) = {})
        => /\ HasErrorKeyword => entry.LogLevel = ERROR
           /\ (~HasErrorKeyword /\ HasWarnKeyword) => entry.LogLevel = WARN
           /\ (~HasErrorKeyword /\ ~HasWarnKeyword) => entry.LogLevel = INFO
           /\ LineText = <<>> => entry.LogLevel = INFO

\* a line with 'Warns' before 'exceptions' and no level token came out as ERROR
C21_Witness ==
    /\ Parsed /\ TokensIn(RestOfLine) = {}
    /\ HasWarnKeyword /\ Contains(LowerRest, <<"e", "x", "c", "e", "p", "t", "i", "o", "n">>)
    /\ IndexByte(RestOfLine, "W") = 0
    /\ entry.LogLevel = ERROR

\* ------------------------------------------------------------------
\* the whitespace-separated tokens of the text after the timestamp, by the position
\* of their first character
Whitespace == {" ", "\t"}

TokenStarts ==
    {i \in 1..Len(RestOfLine) :
        RestOfLine[i] \notin Whitespace /\ (i = 1 \/ RestOfLine[i - 1] \in Whitespace)}

TokenAt(i) ==
    SubSeq(RestOfLine, i,
           CHOOSE j \in i..Len(RestOfLine) :
               /\ \A k \in i..j : RestOfLine[k] \notin Whitespace
               /\ (j = Len(RestOfLine) \/ RestOfLine[j + 1] \in Whitespace))

PairStarts == {i \in TokenStarts : Contains(TokenAt(i), <<"=">>)}

FieldKey(i) == Trim(SubSeq(TokenAt(i), 1, IndexByte(TokenAt(i), "=")), Quotes)
FieldValue(i) ==
    Trim(SubSeq(TokenAt(i), IndexByte(TokenAt(i), "=") + 2, Len(TokenAt(i))), Quotes)

ExpectedFields ==
    [k \in {FieldKey(i) : i \in PairStarts} |->
        FieldValue(CHOOSE i \in PairStarts :
                       FieldKey(i) = k /\ \A j \in PairStarts : FieldKey(j) = k => j <= i)]

\* C22: the fields map has exactly one entry per distinct key among the
\* whitespace-separated tokens of the text after the timestamp that contain '=',
\* each split at its first '=', key and value trimmed of quotes, the last
\* occurrence of a key giving its value
C22_FieldsFromTokens == Parsed => entry.Data.kv = ExpectedFields

\* ------------------------------------------------------------------
\* places in the input of the records of a level class that mapped to pattern key k
PlacesOf(k, errors) ==
    {i \in 1..Len(logs.entries) :
        /\ logs.entries[i].key = k
        /\ IF errors THEN IsError(logs.entries[i].LogLevel)
           ELSE IsWarning(logs.entries[i].LogLevel)}

\* examples are the first min(count, 3) of those places, in input order
FirstPlaces(examples, k, errors) ==
    /\ \A a, b \in 1..Len(examples) : a < b => examples[a] < examples[b]
    /\ {examples[a] : a \in 1..Len(examples)} =
           {i \in PlacesOf(k, errors) :
               Cardinality({j \in PlacesOf(k, errors) : j < i}) < 3}

\* what the claim says of one pattern list and the counts it was made from
RankedPatterns(patterns, countMap, errors) ==
    /\ Len(patterns) <= 10
    /\ \A i, j \in 1..Len(patterns) :
          i < j => /\ patterns[i].Count >= patterns[j].Count
                   /\ patterns[i].Pattern # patterns[j].Pattern
    /\ \A i \in 1..Len(patterns) :
          /\ patterns[i].Pattern \in DOMAIN countMap
          /\ patterns[i].Count = countMap[patterns[i].Pattern]
          /\ Len(patterns[i].Examples) = Min(patterns[i].Count, 3)
          /\ family = "examples"
                => FirstPlaces(patterns[i].Examples, patterns[i].Pattern, errors)
          /\ \A k \in DOMAIN countMap :
                (\A j \in 1..Len(patterns) : patterns[j].Pattern # k)
                    => countMap[k] <= patterns[i].Count

\* C23: commonErrors and commonWarnings are sorted by non-increasing count, hold at
\* most 10 patterns with pairwise distinct keys, leave out no pattern with a larger
\* count than a listed one, and give each listed pattern the first min(count, 3)
\* input records of its key as examples, in input order
C23_PatternsRankedWithExamples ==
    Summarized => /\ RankedPatterns(summary.CommonErrors, errorMap, TRUE)
                  /\ RankedPatterns(summary.CommonWarnings, warningMap, FALSE)

\* an error key met four times, its second record after a record of another key:
\* the examples are its first three records, the fourth is left out
C23_Witness ==
    /\ Summarized /\ family = "examples"
    /\ Len(summary.CommonErrors) = 2
    /\ summary.CommonErrors[1].Count = 4
    /\ summary.CommonErrors[1].Examples = <<1, 3, 4>>
    /\ summary.CommonErrors[2].Examples = <<2>>
    /\ Len(summary.CommonWarnings) = 0

\* eleven error keys, one met twice: it is listed first and a key met once is left out
C23_WitnessCut ==
    /\ Summarized /\ Len(errorMap) = 11
    /\ Len(summary.CommonErrors) = 10
    /\ summary.CommonErrors[1].Count = 2 /\ summary.CommonErrors[1].Pattern = 11

\* ------------------------------------------------------------------
\* C24: for a non-empty input, in whatever order its records come, timeRange.start
\* is the least and timeRange.end the greatest timestamp of all records,
\* start <= end, and duration is end minus start
C24_TimeRangeIsMinMax ==
    (Summarized /\ logs.len > 0)
        => /\ summary.TimeRange.Start \in logs.times
           /\ summary.TimeRange.End \in logs.times
           /\ \A t \in logs.times :
                 summary.TimeRange.Start <= t /\ t <= summary.TimeRange.End
           /\ summary.TimeRange.Start <= summary.TimeRange.End
           /\ summary.TimeRange.Duration
                  = summary.TimeRange.End - summary.TimeRange.Start

\* ------------------------------------------------------------------
\* the populated one-minute bins of the claim: bin b holds the ERROR/FATAL records
\* whose time since the first record is in minute b (floor)
BinOf(t) == (t - logs.first) \div Minute

BinCount(b) ==
    SumOver(logs.errorTimes, {t \in DOMAIN logs.errorTimes : BinOf(t) = b})

PopulatedBins == {BinOf(t) : t \in DOMAIN logs.errorTimes}

\* c > mean + 2 * stddev for the mean and the sample standard deviation of the
\* populated bins' counts: with n bins of sum S, c > S/n and
\* (c - S/n)^2 > 4 * sum((v - S/n)^2) / (n - 1), cleared of fractions
AboveTwoSigma(c) ==
    LET n == Cardinality(PopulatedBins)
        S == SumOver([b \in PopulatedBins |-> BinCount(b)], PopulatedBins)
        sq == [b \in PopulatedBins |->
                  (n * BinCount(b) - S) * (n * BinCount(b) - S)]
    IN  /\ c * n > S
        /\ (c * n - S) * (c * n - S) * (n - 1) > 4 * SumOver(sq, PopulatedBins)

\* C25: the error-spike issue is flagged exactly when the input has at least 100
\* records, at least 3 populated bins, and a bin whose count is above 5 and above
\* the mean plus twice the sample standard deviation of the populated bins' counts
C25_SpikeIffTwoSigma ==
    (mode = "detect" /\ ppc = "done")
        => (Flagged(SpikeMessage)
              <=> /\ logs.len >= 100
                  /\ Cardinality(PopulatedBins) >= 3
                  /\ \E b \in PopulatedBins :
                        BinCount(b) > 5 /\ AboveTwoSigma(BinCount(b)))

\* ------------------------------------------------------------------
\* C26: the spike detector counts each ERROR/FATAL record in the bin whose index
\* is the floor of the minutes between the first record and it, records earlier
\* than the first included, so that every bin covers one minute
C26_BinIsFloorOfMinutes ==
    (mode = "detect" /\ ppc = "done" /\ logs.len >= SpikeMinLogs)
        => ErrorsByMinute(logs) = [b \in PopulatedBins |-> BinCount(b)]

\* ------------------------------------------------------------------
\* the issue messages in the order the claim gives them
IssueOrder ==
    <<"High error rate detected in logs",
      "Error spikes detected - possible service disruption",
      "Pod restart pattern detected - possible crash loop",
      "Resource constraint issues detected (OOM, CPU throttling)",
      "Network connectivity issues detected",
      "Authentication or authorization issues detected">>

IssuePlace(msg) == CHOOSE k \in 1..Len(IssueOrder) : IssueOrder[k] = msg

\* ERROR/FATAL records of the input
ErrorRecords == SumOver(logs.errorTimes, DOMAIN logs.errorTimes)

\* C27: the high-error-rate message is in potentialIssues exactly when the
\* ERROR/FATAL records are strictly more than 10% of the records (at exactly 10% it
\* is not), and the messages present are pairwise different and in the order high
\* error rate, error spike, restart loop, resource, network, auth
C27_ErrorRateStrictAndOrder ==
    (mode = "detect" /\ ppc = "done")
        => /\ Flagged(IssueOrder[1]) <=> 10 * ErrorRecords > logs.len
           /\ \A i \in 1..Len(summary.PotentialIssues) :
                 \E k \in 1..Len(IssueOrder) : summary.PotentialIssues[i] = IssueOrder[k]
           /\ \A i, j \in 1..Len(summary.PotentialIssues) :
                 i < j => IssuePlace(summary.PotentialIssues[i])
                              < IssuePlace(summary.PotentialIssues[j])

\* exactly 10 errors in 100 records, not flagged
C27_Witness ==
    /\ mode = "detect" /\ ppc = "done"
    /\ logs.len = 100 /\ ErrorRecords = 10
    /\ ~Flagged(IssueOrder[1])

\* all six messages at once
C27_WitnessAll == mode = "detect" /\ ppc = "done" /\ summary.PotentialIssues = IssueOrder

\* ------------------------------------------------------------------
\* a deferred close of the fan-in found its channel closed already
ClosedTwice ==
    panicked /\ \/ spc = "closeErr" /\ closed[ErrChan]
                \/ spc = "closeLog" /\ closed[LogChan]

\* C28: whenever StreamLogs has returned, by whatever path, both channels of the
\* caller are closed, and no channel is ever closed a second time
C28_ChannelsClosedOnReturn ==
    mode = "stream"
        => /\ spc = "returned" => closed[LogChan] /\ closed[ErrChan]
           /\ ~ClosedTwice

\* ------------------------------------------------------------------
\* C29: a batch GetPodLogs that returns no error returns at most 10,000 records,
\* whether or not the last line of the stream ends with a newline
C29_BatchReadBounded ==
    mode = "batch"
        => \A p \in Pods : podResult[p].err = "nil" => podResult[p].n <= MaxLogEntries

\* ------------------------------------------------------------------
\* a Service call has returned
ServiceCalled == mode = "service" /\ serviceRet # "pending"

ProviderMatchesConfig ==
    /\ GetCurrentProvider = config.AIProvider
    /\ GetCurrentModel = config.DefaultModel

\* C30: after any SwitchProvider or SetModelName call, failed ones included, the
\* active provider and the configuration agree on provider name and model name; a
\* SwitchProvider call with an unsupported name changes neither of them
C30_ProviderMatchesConfig ==
    ServiceCalled
        => /\ ProviderMatchesConfig
           /\ serviceRet = "unsupported provider"
                  => provider = serviceWas.provider /\ config = serviceWas.config

====
